---- MODULE Spec2Model ----
(***************************************************************************)
(* A model of the teleworker job-supervision engine:                       *)
(*   - the Output Bus (package output: Buffer and inMemoryLogSubscriber),  *)
(*   - the Job state machine (package job: localJob),                      *)
(*   - the Registry (package worker: Worker) and the RPC adapter's         *)
(*     authorization (package server: Server.authorize).                   *)
(* SpecBus exercises one Output Bus with its subscribers; SpecJob drives    *)
(* job objects through the Job interface; Spec exercises the registry and  *)
(* the adapter over the jobs they start; SpecStream adds StreamOutput.     *)
(* SpecBusFair and SpecBusDrain are the bus under scheduling fairness;     *)
(* SpecHandler is the bus read by StreamOutput handlers; SpecOrphan adds   *)
(* the processes of a job and the supervisor's exit; SpecHost is the host  *)
(* with its signal goroutine, Worker.Shutdown and GracefulStop.            *)
(* SpecResources is package resources called directly; SpecLocks is the    *)
(* mutexes of the registry, the jobs and the buses; SpecLife is the life   *)
(* of a job from StartJob to EOF under scheduling fairness.                *)
(***************************************************************************)
EXTENDS Integers, Sequences, FiniteSets, TLC

\* ------------------------------------------------------------------ bounds
MaxBuf == 2        \* longest buffer the writer may build
MaxWrite == 2      \* longest slice handed to one Write
MaxDst == 2        \* largest destination slice handed to one Read
MaxSubs == 2       \* subscribers of the bus
MaxJobs == 2       \* job ids the registry and the job package hand out
MaxExitCode == 1   \* a child exits on its own with a code in 0..MaxExitCode
MaxCleanups == 2   \* Cleanup calls counted per cgroup before failed Starts stop retrying

Bytes == {"a", "b"}
SubIds == 1..MaxSubs
JobIds == 1..MaxJobs
ExitCodes == 0..MaxExitCode

\* syscall.SIGKILL
SIGKILL == 9
\* The signal that ends a child without Stop: SIGKILL (the OOM killer).
Signals == {SIGKILL}

\* A nil *int exit code.
NoExit == -1

\* auth.Identity values: two clients and an admin.
Identities ==
  { [username |-> "alice", role |-> "client"],
    [username |-> "bob", role |-> "client"],
    [username |-> "root", role |-> "admin"] }
\* The identities jobs are started under: a client and an admin.
Owners == {id \in Identities : id.username # "bob"}
\* auth.Identity{}
NoIdentity == [username |-> "", role |-> ""]

NULL == "nil"

\* No Read of the subscriber has returned io.ErrClosedPipe.
NoCancel == -1

\* req.GetCommand(): the empty command and a program to run.
Commands == {"", "true"}

Min(a, b) == IF a < b THEN a ELSE b

\* All byte slices of length lo..hi.
RECURSIVE SeqsOfLen(_)
SeqsOfLen(n) ==
  IF n = 0 THEN {<<>>}
  ELSE {Append(s, b) : s \in SeqsOfLen(n - 1), b \in Bytes}

Slices(lo, hi) == UNION {SeqsOfLen(n) : n \in lo..hi}

VARIABLES
  \* ---- Output Bus (Buffer) ----
  buf,        \* Buffer.buf
  closed,     \* Buffer.closed
  \* ---- subscribers (inMemoryLogSubscriber), one per SubIds ----
  subPc,      \* "none" (not created), "idle", "waiting" (in cond.Wait), "woken"
  offset,     \* inMemoryLogSubscriber.offset
  done,       \* inMemoryLogSubscriber.done is closed
  closeOnce,  \* closeOnce: "open", "closing" (done closed, broadcast pending), "closed"
  dstLen,     \* len(p) of the Read call in progress
  readRes,    \* result of the subscriber's last returned Read
  \* ---- history of the bus ----
  written,    \* every byte a successful Write was handed, in call order
  got,        \* per subscriber: concatenation of the bytes its Reads returned
  writeRes,   \* result of the last Write: <<n, err>>
  busOp,      \* the bus call that took a step last, and the subscriber it was on
  cancelAt,   \* per subscriber: its offset when a Read last returned
              \* io.ErrClosedPipe; NoCancel if none has
  \* ---- jobs (localJob), one per JobIds ----
  nextId,     \* ids below nextId have been generated (uuid.New / the caller's id)
  status,     \* localJob.status; NULL while no job object exists for the id
  exitCode,   \* localJob.exitCode; NoExit is nil
  cmd,        \* localJob.cmd is set
  cgroup,     \* localJob.cgroup: "nil", "open" (directory and fd exist),
              \* "stale" (fd closed, directory left), "removed"
  cleanups,   \* number of Cgroup.Cleanup calls on the job's cgroup
  noCleanup,  \* Worker.noCleanup / Options.NoCleanup
  child,      \* the OS child: none, alive, or its exit disposition
  waiter,     \* the goroutine in localJob.Wait: "none", "blocked", "reaped", "done"
  waitErr,    \* what cmd.Wait returned to the waiter
  \* ---- registry (Worker) ----
  jobs,       \* keys of Worker.jobs
  owners,     \* Worker.owners
  held,       \* ids of the jobs (of the cgroups) a caller of package job
              \* (of package resources) constructed and holds
  \* ---- history ----
  stopped,    \* a Stop call on the job has returned nil
  returned,   \* the ids Worker.StartJob has returned to a caller
  lastOp,     \* the call that completed last, with what it returned and did
  \* ---- StreamOutput handlers (Server.StreamOutput), one per subscriber ----
  rpc,        \* "none", "open" (in its loop), "reading" (in sub.Read),
              \* "closing" (running its deferred calls), "returned"
  rpcCode,    \* what the handler returns: NULL (nil), "Canceled" or "SendErr"
  ctx,        \* stream.Context(): "live" or "cancelled"
  sent,       \* the bytes stream.Send has delivered, in order
  \* ---- host (runServer) ----
  shutdown,   \* Worker.Shutdown: pc "idle", "locked" (w.mu held) or "done";
              \* seen: w.jobs when it took the lock; todo: the jobs its range
              \* loop has still to visit; cur: the job it is at, between Stop
              \* and Close (0: none); stopReq: the jobs it has called Stop on
  grpc,       \* the gRPC server: "serving", "draining" (GracefulStop called), "stopped"
  \* ---- operating system ----
  supervisor, \* the teleworker process: "up" or "exited"
  attr,       \* per job: the SysProcAttr its child was started with
  desc,       \* per job: a process forked by the child is alive
  \* ---- locks (Worker.mu, localJob.mu, Buffer.mu) ----
  thread,     \* per goroutine: the call it is in (op, job), the next step of
              \* that call's lock script (pc), and whether it runs, is parked
              \* in cond.Wait or has been woken there (st)
  mutex       \* w: Worker.mu (its writer, its readers, the goroutines in
              \* Lock()); m: the holder of each localJob.mu and Buffer.mu

busVars == <<buf, closed, subPc, offset, done, closeOnce, dstLen, readRes,
             written, got, writeRes, busOp, cancelAt>>

jobVars == <<nextId, status, exitCode, cmd, cgroup, cleanups, noCleanup, child,
             waiter, waitErr, jobs, owners, held, stopped, returned, lastOp>>

rpcVars == <<rpc, rpcCode, ctx, sent>>

shutVars == <<shutdown, grpc>>

osVars == <<supervisor, attr, desc>>

lockVars == <<thread, mutex>>

hostVars == <<rpcVars, shutVars, osVars, lockVars>>

vars == <<busVars, jobVars, hostVars>>

\* ------------------------------------------------------------ Output Bus

\* The record of a call on the bus or on subscriber s (0: on the bus itself).
BusOp(op, s) == [op |-> op, s |-> s]

\* A Broadcast that wakes nobody.
BroadcastLost(pc) == pc

\* sync.Cond.Broadcast: every goroutine parked in cond.Wait becomes runnable.
Broadcast(pc) == [s \in SubIds |-> IF pc[s] = "waiting" THEN "woken" ELSE pc[s]]

\* append(b.buf, p...)
AppendBytesDropFirst(b, p) == IF p = <<>> THEN b ELSE b \o Tail(p)
AppendBytesReplaces(b, p) == p
AppendBytes(b, p) == b \o p

\* Buffer.Write without its `if b.closed` check.
WriteIgnoresClosed(p) ==
  /\ Len(buf) + Len(p) <= MaxBuf
  /\ buf' = AppendBytes(buf, p)
  /\ subPc' = Broadcast(subPc)
  /\ writeRes' = <<Len(p), NULL>>
  /\ written' = written \o p
  /\ busOp' = BusOp("Write", 0)
  /\ UNCHANGED <<closed, offset, done, closeOnce, dstLen, readRes, got, cancelAt>>
  /\ UNCHANGED jobVars
  /\ UNCHANGED hostVars

\* Buffer.Write
Write(p) ==
  /\ Len(buf) + Len(p) <= MaxBuf
  /\ IF closed
       THEN /\ writeRes' = <<0, "ErrClosed">>
            /\ UNCHANGED <<buf, subPc, written>>
       ELSE /\ buf' = AppendBytes(buf, p)
            /\ subPc' = Broadcast(subPc)
            /\ writeRes' = <<Len(p), NULL>>
            /\ written' = written \o p
  /\ busOp' = BusOp("Write", 0)
  /\ UNCHANGED <<closed, offset, done, closeOnce, dstLen, readRes, got, cancelAt>>
  /\ UNCHANGED jobVars
  /\ UNCHANGED hostVars

\* Buffer.Close flipping the flag instead of setting it.
CloseToggles ==
  /\ closed' = ~closed
  /\ subPc' = Broadcast(subPc)
  /\ busOp' = BusOp("Close", 0)
  /\ UNCHANGED <<buf, offset, done, closeOnce, dstLen, readRes, written, got, writeRes, cancelAt>>
  /\ UNCHANGED jobVars
  /\ UNCHANGED hostVars

\* Buffer.Close, its effect on the bus.
CloseBus ==
  /\ closed' = TRUE
  /\ subPc' = Broadcast(subPc)
  /\ busOp' = BusOp("Close", 0)
  /\ UNCHANGED <<buf, offset, done, closeOnce, dstLen, readRes, written, got, writeRes, cancelAt>>

\* Buffer.Close
Close ==
  /\ CloseBus
  /\ UNCHANGED jobVars
  /\ UNCHANGED hostVars

\* Buffer.Subscribe, its effect on the bus: subscriber s (the next unused one)
\* is created at offset 0.
SubscribeBus(s) ==
  /\ subPc[s] = "none"
  /\ \A t \in SubIds : t < s => subPc[t] # "none"
  /\ subPc' = [subPc EXCEPT ![s] = "idle"]
  /\ offset' = [offset EXCEPT ![s] = 0]
  /\ done' = [done EXCEPT ![s] = FALSE]
  /\ closeOnce' = [closeOnce EXCEPT ![s] = "open"]
  /\ busOp' = BusOp("Subscribe", s)
  /\ UNCHANGED <<buf, closed, dstLen, readRes, written, got, writeRes, cancelAt>>

\* Buffer.Subscribe
Subscribe(s) ==
  /\ SubscribeBus(s)
  /\ UNCHANGED jobVars
  /\ UNCHANGED hostVars

\* n := copy(p, s.buf.buf[s.offset:]) -- the bytes copied into a destination of
\* length n from offset off.
CopyFromStart(b, off, n) == SubSeq(b, 1, Min(n, Len(b) - off))
CopyOut(b, off, n) == SubSeq(b, off + 1, off + Min(n, Len(b) - off))

\* A Read that looks at done before it looks for unread bytes.
ReadLoopDoneFirst(s, n) ==
  IF done[s]
    THEN /\ readRes' = [readRes EXCEPT ![s] = <<0, "ErrClosedPipe">>]
         /\ subPc' = [subPc EXCEPT ![s] = "idle"]
         /\ dstLen' = [dstLen EXCEPT ![s] = 0]
         /\ cancelAt' = [cancelAt EXCEPT ![s] = offset[s]]
         /\ UNCHANGED <<offset, got>>
    ELSE IF offset[s] = Len(buf)
      THEN IF closed
             THEN /\ readRes' = [readRes EXCEPT ![s] = <<0, "EOF">>]
                  /\ subPc' = [subPc EXCEPT ![s] = "idle"]
                  /\ dstLen' = [dstLen EXCEPT ![s] = 0]
                  /\ UNCHANGED <<offset, got, cancelAt>>
             ELSE /\ subPc' = [subPc EXCEPT ![s] = "waiting"]
                  /\ dstLen' = [dstLen EXCEPT ![s] = n]
                  /\ UNCHANGED <<offset, got, readRes, cancelAt>>
      ELSE LET data == CopyOut(buf, offset[s], n) IN
           /\ offset' = [offset EXCEPT ![s] = offset[s] + Len(data)]
           /\ got' = [got EXCEPT ![s] = got[s] \o data]
           /\ readRes' = [readRes EXCEPT ![s] = <<Len(data), NULL>>]
           /\ subPc' = [subPc EXCEPT ![s] = "idle"]
           /\ dstLen' = [dstLen EXCEPT ![s] = 0]
           /\ UNCHANGED cancelAt

\* A Read that looks at the closed flag before it looks for unread bytes.
ReadLoopClosedFirst(s, n) ==
  IF closed
    THEN /\ readRes' = [readRes EXCEPT ![s] = <<0, "EOF">>]
         /\ subPc' = [subPc EXCEPT ![s] = "idle"]
         /\ dstLen' = [dstLen EXCEPT ![s] = 0]
         /\ UNCHANGED <<offset, got, cancelAt>>
    ELSE IF offset[s] = Len(buf)
      THEN IF done[s]
             THEN /\ readRes' = [readRes EXCEPT ![s] = <<0, "ErrClosedPipe">>]
                  /\ subPc' = [subPc EXCEPT ![s] = "idle"]
                  /\ dstLen' = [dstLen EXCEPT ![s] = 0]
                  /\ cancelAt' = [cancelAt EXCEPT ![s] = offset[s]]
                  /\ UNCHANGED <<offset, got>>
             ELSE /\ subPc' = [subPc EXCEPT ![s] = "waiting"]
                  /\ dstLen' = [dstLen EXCEPT ![s] = n]
                  /\ UNCHANGED <<offset, got, readRes, cancelAt>>
      ELSE LET data == CopyOut(buf, offset[s], n) IN
           /\ offset' = [offset EXCEPT ![s] = offset[s] + Len(data)]
           /\ got' = [got EXCEPT ![s] = got[s] \o data]
           /\ readRes' = [readRes EXCEPT ![s] = <<Len(data), NULL>>]
           /\ subPc' = [subPc EXCEPT ![s] = "idle"]
           /\ dstLen' = [dstLen EXCEPT ![s] = 0]
           /\ UNCHANGED cancelAt

\* One pass of inMemoryLogSubscriber.Read from the top of its loop, with the
\* bus mutex held: return EOF, return ErrClosedPipe, park in cond.Wait, or copy.
ReadLoop(s, n) ==
  IF offset[s] = Len(buf)
    THEN IF closed
           THEN /\ readRes' = [readRes EXCEPT ![s] = <<0, "EOF">>]
                /\ subPc' = [subPc EXCEPT ![s] = "idle"]
                /\ dstLen' = [dstLen EXCEPT ![s] = 0]
                /\ UNCHANGED <<offset, got, cancelAt>>
           ELSE IF done[s]
             THEN /\ readRes' = [readRes EXCEPT ![s] = <<0, "ErrClosedPipe">>]
                  /\ subPc' = [subPc EXCEPT ![s] = "idle"]
                  /\ dstLen' = [dstLen EXCEPT ![s] = 0]
                  /\ cancelAt' = [cancelAt EXCEPT ![s] = offset[s]]
                  /\ UNCHANGED <<offset, got>>
             ELSE /\ subPc' = [subPc EXCEPT ![s] = "waiting"]
                  /\ dstLen' = [dstLen EXCEPT ![s] = n]
                  /\ UNCHANGED <<offset, got, readRes, cancelAt>>
    ELSE LET data == CopyOut(buf, offset[s], n) IN
         /\ offset' = [offset EXCEPT ![s] = offset[s] + Len(data)]
         /\ got' = [got EXCEPT ![s] = got[s] \o data]
         /\ readRes' = [readRes EXCEPT ![s] = <<Len(data), NULL>>]
         /\ subPc' = [subPc EXCEPT ![s] = "idle"]
         /\ dstLen' = [dstLen EXCEPT ![s] = 0]
         /\ UNCHANGED cancelAt

\* inMemoryLogSubscriber.Read is called with a destination of length n: its
\* effect on the bus.
ReadBus(s, n) ==
  /\ subPc[s] = "idle"
  /\ ReadLoop(s, n)
  /\ busOp' = BusOp("Read", s)
  /\ UNCHANGED <<buf, closed, done, closeOnce, written, writeRes>>

\* inMemoryLogSubscriber.Read
Read(s, n) ==
  /\ ReadBus(s, n)
  /\ UNCHANGED jobVars
  /\ UNCHANGED hostVars

\* cond.Wait returns after a Broadcast; the loop condition is evaluated again.
ReadResume(s) ==
  /\ subPc[s] = "woken"
  /\ ReadLoop(s, dstLen[s])
  /\ busOp' = BusOp("Read", s)
  /\ UNCHANGED <<buf, closed, done, closeOnce, written, writeRes>>
  /\ UNCHANGED jobVars
  /\ UNCHANGED hostVars

\* inMemoryLogSubscriber.Close closing the Buffer it reads as well.
SubCloseClosesBus(s) ==
  /\ subPc[s] # "none"
  /\ closeOnce[s] # "closing"
  /\ IF closeOnce[s] = "open"
       THEN /\ done' = [done EXCEPT ![s] = TRUE]
            /\ closeOnce' = [closeOnce EXCEPT ![s] = "closing"]
       ELSE UNCHANGED <<done, closeOnce>>
  /\ closed' = TRUE
  /\ busOp' = BusOp(IF closeOnce[s] = "open" THEN "SubClose" ELSE "SubCloseAgain", s)
  /\ UNCHANGED <<buf, subPc, offset, dstLen, readRes, written, got, writeRes, cancelAt>>
  /\ UNCHANGED jobVars
  /\ UNCHANGED hostVars

\* inMemoryLogSubscriber.Close, first half: closeOnce.Do runs close(s.done).
\* A call on a subscriber whose closeOnce has completed does nothing (it is
\* recorded as "SubCloseAgain").
SubClose(s) ==
  /\ subPc[s] # "none"
  /\ closeOnce[s] # "closing"
  /\ IF closeOnce[s] = "open"
       THEN /\ done' = [done EXCEPT ![s] = TRUE]
            /\ closeOnce' = [closeOnce EXCEPT ![s] = "closing"]
       ELSE UNCHANGED <<done, closeOnce>>
  /\ busOp' = BusOp(IF closeOnce[s] = "open" THEN "SubClose" ELSE "SubCloseAgain", s)
  /\ UNCHANGED <<buf, closed, subPc, offset, dstLen, readRes, written, got, writeRes, cancelAt>>
  /\ UNCHANGED jobVars
  /\ UNCHANGED hostVars

\* The second half without the Broadcast.
SubCloseNoBroadcast(s) ==
  /\ closeOnce[s] = "closing"
  /\ closeOnce' = [closeOnce EXCEPT ![s] = "closed"]
  /\ busOp' = BusOp("SubClose", s)
  /\ UNCHANGED <<buf, closed, subPc, offset, done, dstLen, readRes, written, got, writeRes, cancelAt>>
  /\ UNCHANGED jobVars
  /\ UNCHANGED hostVars

\* inMemoryLogSubscriber.Close, second half: take the bus mutex and Broadcast.
SubCloseBroadcast(s) ==
  /\ closeOnce[s] = "closing"
  /\ closeOnce' = [closeOnce EXCEPT ![s] = "closed"]
  /\ subPc' = Broadcast(subPc)
  /\ busOp' = BusOp("SubClose", s)
  /\ UNCHANGED <<buf, closed, offset, done, dstLen, readRes, written, got, writeRes, cancelAt>>
  /\ UNCHANGED jobVars
  /\ UNCHANGED hostVars

\* ------------------------------------------------- Resource Controller

\* The calls Manager.CreateCgroup makes, in order.
CreateSteps == <<"mkdir", "cpu.max", "memory.max", "rootIOMax", "io.max", "open">>

\* Manager.CreateCgroup failing when io.max cannot be written.
CreateOutcomeIoFatal(fails) ==
  IF "mkdir" \in fails
    THEN [err |-> "Mkdir", cg |-> "nil", failed |-> {"mkdir"}]
  ELSE IF "cpu.max" \in fails
    THEN [err |-> "CpuMax", cg |-> "removed", failed |-> {"cpu.max"}]
  ELSE IF "memory.max" \in fails
    THEN [err |-> "MemoryMax", cg |-> "removed", failed |-> {"memory.max"}]
  ELSE LET io == IF "rootIOMax" \in fails THEN {"rootIOMax"}
                 ELSE IF "io.max" \in fails THEN {"io.max"} ELSE {}
       IN IF io # {}
            THEN [err |-> "IoMax", cg |-> "removed", failed |-> io]
          ELSE IF "open" \in fails
            THEN [err |-> "OpenFd", cg |-> "removed", failed |-> {"open"}]
            ELSE [err |-> NULL, cg |-> "open", failed |-> {}]

\* Manager.CreateCgroup, where fails is the set of its calls that fail if they
\* are made. Yields the error, the state of the job directory ("nil": never
\* made, "removed": made and removed again, "open": there, with the fd of the
\* Cgroup that is returned) and the calls that were made and failed. The
\* directory has never held a process, so its removal succeeds.
CreateOutcome(fails) ==
  IF "mkdir" \in fails
    THEN [err |-> "Mkdir", cg |-> "nil", failed |-> {"mkdir"}]
  ELSE IF "cpu.max" \in fails
    THEN [err |-> "CpuMax", cg |-> "removed", failed |-> {"cpu.max"}]
  ELSE IF "memory.max" \in fails
    THEN [err |-> "MemoryMax", cg |-> "removed", failed |-> {"memory.max"}]
  ELSE LET io == IF "rootIOMax" \in fails THEN {"rootIOMax"}
                 ELSE IF "io.max" \in fails THEN {"io.max"} ELSE {}
       IN IF "open" \in fails
            THEN [err |-> "OpenFd", cg |-> "removed", failed |-> io \cup {"open"}]
            ELSE [err |-> NULL, cg |-> "open", failed |-> io]

\* ------------------------------------------------------------------- Job

Terminal == {"Success", "Failed", "Killed"}

Disp(kind, val) == [kind |-> kind, val |-> val]
NoChild == Disp("none", 0)
Alive == Disp("alive", 0)
\* The child has been waited for: its pid and process group are gone.
Reaped == Disp("reaped", 0)
\* How a child can end on its own: exit(n) or death by a signal.
OwnExits == {Disp("exit", n) : n \in ExitCodes} \cup {Disp("signal", sg) : sg \in Signals}
Dead(c) == c.kind \in {"exit", "signal"}

\* What cmd.Wait hands the waiter for a dead child: nil for exit 0, an
\* *exec.ExitError carrying the wait status otherwise.
ExitErrOf(c) == IF c.kind = "exit" /\ c.val = 0 THEN Disp("nil", 0) ELSE c
\* An error of cmd.Wait that is not an *exec.ExitError.
OtherErr == Disp("other", 0)
NoErr == Disp("none", 0)

\* cmd.SysProcAttr as localJob.buildCmd fills it: a new process group, SIGKILL
\* on the death of the parent, and CLONE_NEWPID when usePIDNS.
SysProcAttrNoPdeathsig(usePIDNS) ==
  [setpgid |-> TRUE, pdeathsig |-> 0, newpid |-> usePIDNS]
SysProcAttr(usePIDNS) ==
  [setpgid |-> TRUE, pdeathsig |-> SIGKILL, newpid |-> usePIDNS]
\* No child has been started.
NoAttr == [setpgid |-> FALSE, pdeathsig |-> 0, newpid |-> FALSE]

\* The record of a completed call.
Op(op, id, who, code, st, ec, cgKill, pgKill) ==
  [op |-> op, id |-> id, who |-> who, code |-> code, status |-> st,
   exitCode |-> ec, cgKill |-> cgKill, pgKill |-> pgKill, command |-> NULL,
   cgFailed |-> FALSE, sig |-> NULL, spawns |-> <<>>, failed |-> {}]
NoOp == Op("none", 0, NoIdentity, NULL, NULL, NoExit, FALSE, FALSE)

\* Cgroup.Cleanup on a cgroup in state cg, where rm is the result of removing
\* the directory. Closing the fd fails once it has been closed (the directory
\* is then left as it is); a failed removal leaves the directory in place with
\* its fd closed ("stale").
Cleanup(cg, rm) ==
  IF cg # "open" THEN cg
  ELSE IF rm = "ok" THEN "removed" ELSE "stale"

\* One cmd.Start call of localJob.Start: the argument of buildCmd and whether
\* the call succeeded.
Try(usePIDNS, ok) == [usePIDNS |-> usePIDNS, ok |-> ok]

\* localJob.Start retrying with the PID namespace flags still set.
SpawnRetriesWithNamespace(first, second) ==
  IF first
    THEN [tries |-> <<Try(TRUE, TRUE)>>, ok |-> TRUE, usePIDNS |-> TRUE]
    ELSE [tries |-> <<Try(TRUE, FALSE), Try(TRUE, second)>>, ok |-> second,
          usePIDNS |-> TRUE]

\* localJob.Start, its cmd.Start calls: buildCmd(true) first and, if that
\* spawn failed, buildCmd(false). first and second are what the two calls
\* return. Yields the calls made, whether a child exists and whether it was
\* started with the PID namespace flags.
Spawn(first, second) ==
  IF first
    THEN [tries |-> <<Try(TRUE, TRUE)>>, ok |-> TRUE, usePIDNS |-> TRUE]
    ELSE [tries |-> <<Try(TRUE, FALSE), Try(FALSE, second)>>, ok |-> second,
          usePIDNS |-> FALSE]

\* Manager.CreateCgroup(jobID) called directly, for the next unused id.
CreateCgroup(j, fails) ==
  /\ j = nextId
  /\ j \in JobIds
  /\ nextId' = nextId + 1
  /\ LET r == CreateOutcome(fails) IN
     /\ cgroup' = [cgroup EXCEPT ![j] = r.cg]
     /\ held' = IF r.err = NULL THEN held \cup {j} ELSE held
     /\ lastOp' = [Op("CreateCgroup", j, NoIdentity, r.err, NULL, NoExit, FALSE, FALSE)
                     EXCEPT !.failed = r.failed]
  /\ UNCHANGED <<status, exitCode, cmd, cleanups, noCleanup, child, waiter, waitErr,
                 jobs, owners, stopped, returned>>
  /\ UNCHANGED busVars
  /\ UNCHANGED hostVars

\* Cgroup.Kill called directly: the write of cgroup.kill fails once the
\* directory is gone. No process is in the cgroup.
CgroupKill(j) ==
  /\ j \in held
  /\ lastOp' = [Op("Kill", j, NoIdentity,
                    IF cgroup[j] = "removed" THEN "KillFailed" ELSE NULL,
                    NULL, NoExit, TRUE, FALSE)
                  EXCEPT !.cgFailed = cgroup[j] = "removed"]
  /\ UNCHANGED <<nextId, status, exitCode, cmd, cgroup, cleanups, noCleanup, child,
                 waiter, waitErr, jobs, owners, held, stopped, returned>>
  /\ UNCHANGED busVars
  /\ UNCHANGED hostVars

\* Cgroup.Cleanup called directly.
CgroupCleanup(j) ==
  /\ j \in held
  /\ cleanups[j] < MaxCleanups
  /\ cgroup' = [cgroup EXCEPT ![j] = Cleanup(@, "ok")]
  /\ cleanups' = [cleanups EXCEPT ![j] = @ + 1]
  /\ lastOp' = Op("Cleanup", j, NoIdentity,
                  IF cgroup[j] = "open" THEN NULL ELSE "CloseFailed",
                  NULL, NoExit, FALSE, FALSE)
  /\ UNCHANGED <<nextId, status, exitCode, cmd, noCleanup, child, waiter, waitErr,
                 jobs, owners, held, stopped, returned>>
  /\ UNCHANGED busVars
  /\ UNCHANGED hostVars

\* localJob.Start: `if l.status != StatusSubmitted { return error }`
StartRefusedNever(st) == FALSE
StartRefused(st) == st # "Submitted"

\* localJob.Start returning its spawn error without `l.cgroup.Cleanup()`.
StartOutcomeLeaksCgroup(st, cg, ok) ==
  IF StartRefused(st)
    THEN [err |-> "AlreadyStarted", status |-> st, spawned |-> FALSE,
          cgroup |-> cg, cleaned |-> FALSE]
    ELSE IF ok
      THEN [err |-> NULL, status |-> "Running", spawned |-> TRUE,
            cgroup |-> cg, cleaned |-> FALSE]
      ELSE [err |-> "StartFailed", status |-> st, spawned |-> FALSE,
            cgroup |-> cg, cleaned |-> FALSE]

\* localJob.Start on a job in status st with cgroup cg, where ok says whether
\* cmd.Start succeeded (with the PID namespace or on the fallback attempt).
\* Yields the job's fields after the call, whether Cleanup ran, and the error.
StartOutcome(st, cg, ok) ==
  IF StartRefused(st)
    THEN [err |-> "AlreadyStarted", status |-> st, spawned |-> FALSE,
          cgroup |-> cg, cleaned |-> FALSE]
    ELSE IF ok
      THEN [err |-> NULL, status |-> "Running", spawned |-> TRUE,
            cgroup |-> cg, cleaned |-> FALSE]
      ELSE [err |-> "StartFailed", status |-> st, spawned |-> FALSE,
            cgroup |-> IF cg # "nil" THEN Cleanup(cg, "ok") ELSE cg,
            cleaned |-> cg # "nil"]

\* localJob.Stop: `if l.status != StatusRunning { return ErrJobNotRunning }`
StopRefusedOnlyWhenKilled(st) == st = "Killed"
StopRefusedNever(st) == FALSE
StopRefused(st) == st # "Running"

\* `ec := 128 + int(syscall.SIGKILL)`
StopExitCode == 128 + SIGKILL

\* localJob.Stop sending SIGKILL to the process group whatever Cgroup.Kill did.
StopOutcomeAlwaysSignals(st, ec, cg, cgErr, sig) ==
  IF StopRefused(st)
    THEN [err |-> "NotRunning", status |-> st, exitCode |-> ec,
          cgKill |-> FALSE, cgFailed |-> FALSE, pgKill |-> FALSE, killed |-> FALSE,
          sig |-> NULL]
    ELSE LET cgTried == cg # "nil"
             cgFailed == cgTried /\ cgErr
             delivered == (cgTried /\ ~cgFailed) \/ sig = "ok"
         IN IF sig \notin {"ok", "ESRCH"}
              THEN [err |-> "KillFailed", status |-> st, exitCode |-> ec,
                    cgKill |-> cgTried, cgFailed |-> cgFailed, pgKill |-> TRUE,
                    killed |-> FALSE, sig |-> sig]
              ELSE [err |-> NULL, status |-> "Killed", exitCode |-> StopExitCode,
                    cgKill |-> cgTried, cgFailed |-> cgFailed, pgKill |-> TRUE,
                    killed |-> delivered, sig |-> sig]

\* localJob.Stop without `!errors.Is(err, syscall.ESRCH)`: every errno of
\* syscall.Kill is reported.
StopOutcomeEsrchFails(st, ec, cg, cgErr, sig) ==
  IF StopRefused(st)
    THEN [err |-> "NotRunning", status |-> st, exitCode |-> ec,
          cgKill |-> FALSE, cgFailed |-> FALSE, pgKill |-> FALSE, killed |-> FALSE,
          sig |-> NULL]
    ELSE LET cgTried == cg # "nil"
             cgFailed == cgTried /\ cgErr
             pgTried == cg = "nil" \/ cgFailed
             delivered == (cgTried /\ ~cgFailed) \/ (pgTried /\ sig = "ok")
         IN IF pgTried /\ sig # "ok"
              THEN [err |-> "KillFailed", status |-> st, exitCode |-> ec,
                    cgKill |-> cgTried, cgFailed |-> cgFailed, pgKill |-> TRUE,
                    killed |-> FALSE, sig |-> sig]
              ELSE [err |-> NULL, status |-> "Killed", exitCode |-> StopExitCode,
                    cgKill |-> cgTried, cgFailed |-> cgFailed, pgKill |-> pgTried,
                    killed |-> delivered, sig |-> IF pgTried THEN sig ELSE NULL]

\* localJob.Stop on a job in status st with exit code ec and cgroup cg.
\* cgErr: Cgroup.Kill failed. sig: the result of syscall.Kill on the process
\* group ("ok", "ESRCH" or another errno), used when the signal path is taken.
\* cgKill: cgroup.kill was written; cgFailed: that write failed; pgKill:
\* syscall.Kill(-pid, SIGKILL) was called, and sig is then what it returned.
StopOutcome(st, ec, cg, cgErr, sig) ==
  IF StopRefused(st)
    THEN [err |-> "NotRunning", status |-> st, exitCode |-> ec,
          cgKill |-> FALSE, cgFailed |-> FALSE, pgKill |-> FALSE, killed |-> FALSE,
          sig |-> NULL]
    ELSE LET cgTried == cg # "nil"
             cgFailed == cgTried /\ cgErr
             pgTried == cg = "nil" \/ cgFailed
             delivered == (cgTried /\ ~cgFailed) \/ (pgTried /\ sig = "ok")
         IN IF pgTried /\ sig \notin {"ok", "ESRCH"}
              THEN [err |-> "KillFailed", status |-> st, exitCode |-> ec,
                    cgKill |-> cgTried, cgFailed |-> cgFailed, pgKill |-> TRUE,
                    killed |-> FALSE, sig |-> sig]
              ELSE [err |-> NULL, status |-> "Killed", exitCode |-> StopExitCode,
                    cgKill |-> cgTried, cgFailed |-> cgFailed, pgKill |-> pgTried,
                    killed |-> delivered, sig |-> IF pgTried THEN sig ELSE NULL]

\* What a Stop with outcome r sent to the job, in the order of the calls in
\* localJob.Stop: the write of cgroup.kill, then syscall.Kill(-pid, SIGKILL).
StopSends(r) ==
  (IF r.cgKill THEN <<"cgroup.kill">> ELSE <<>>)
    \o (IF r.pgKill THEN <<"SIGKILL">> ELSE <<>>)

\* localJob.Wait, the status it leaves: Killed stays, otherwise Failed on an
\* error of cmd.Wait and Success on nil.
WaitStatusOverwrites(st, err) ==
  IF err.kind # "nil" THEN "Failed" ELSE "Success"
WaitStatusKilledBySignal(st, err) ==
  IF err.kind = "signal" /\ err.val = SIGKILL THEN "Killed"
  ELSE IF st = "Killed" THEN st
  ELSE IF err.kind # "nil" THEN "Failed" ELSE "Success"
WaitStatusSuccessWins(st, err) ==
  IF err.kind # "nil"
    THEN IF st # "Killed" THEN "Failed" ELSE st
    ELSE "Success"
WaitStatus(st, err) ==
  IF err.kind # "nil"
    THEN IF st # "Killed" THEN "Failed" ELSE st
    ELSE IF st # "Killed" THEN "Success" ELSE st

\* localJob.Wait, the exit code it leaves: 128 + signal for a signaled child,
\* ExitCode() for an exited one, 0 for nil, and untouched for any other error.
WaitExitCodeRawSignal(ec, err) ==
  IF err.kind = "nil" THEN 0
  ELSE IF err.kind = "signal" THEN err.val
  ELSE IF err.kind = "exit" THEN err.val
  ELSE ec
WaitExitCodeNoneOnSuccess(ec, err) ==
  IF err.kind = "nil" THEN ec
  ELSE IF err.kind = "signal" THEN 128 + err.val
  ELSE IF err.kind = "exit" THEN err.val
  ELSE ec
WaitExitCode(ec, err) ==
  IF err.kind = "nil" THEN 0
  ELSE IF err.kind = "signal" THEN 128 + err.val
  ELSE IF err.kind = "exit" THEN err.val
  ELSE ec

\* job.NewJob(JobTypeLocal, ...) called directly with Options{Cgroup: cg}.
NewJob(j, cg) ==
  /\ j = nextId
  /\ j \in JobIds
  /\ nextId' = nextId + 1
  /\ status' = [status EXCEPT ![j] = "Submitted"]
  /\ cgroup' = [cgroup EXCEPT ![j] = cg]
  /\ held' = held \cup {j}
  /\ lastOp' = Op("NewJob", j, NoIdentity, NULL, "Submitted", NoExit, FALSE, FALSE)
  /\ UNCHANGED <<exitCode, cmd, cleanups, noCleanup, child, waiter, waitErr,
                 jobs, owners, stopped, returned>>
  /\ UNCHANGED busVars
  /\ UNCHANGED hostVars

\* localJob.Start. first, second: what cmd.Start returns with and without the
\* PID namespace flags; no spawn into a cgroup whose fd is closed succeeds.
Start(j, first, second) ==
  /\ j \in held
  /\ LET usable == cgroup[j] \notin {"removed", "stale"}
         sp == Spawn(first /\ usable, second /\ usable)
         r == StartOutcome(status[j], cgroup[j], sp.ok) IN
     /\ attr' = [attr EXCEPT ![j] = IF r.spawned THEN SysProcAttr(sp.usePIDNS) ELSE @]
     /\ r.cleaned => cleanups[j] < MaxCleanups
     /\ status' = [status EXCEPT ![j] = r.status]
     /\ cgroup' = [cgroup EXCEPT ![j] = r.cgroup]
     /\ cleanups' = [cleanups EXCEPT ![j] = IF r.cleaned THEN @ + 1 ELSE @]
     /\ cmd' = [cmd EXCEPT ![j] = IF r.spawned THEN TRUE ELSE @]
     /\ child' = [child EXCEPT ![j] = IF r.spawned THEN Alive ELSE @]
     /\ lastOp' = [Op("Start", j, NoIdentity, r.err, r.status, exitCode[j], FALSE, FALSE)
                     EXCEPT !.spawns = IF StartRefused(status[j]) THEN <<>> ELSE sp.tries]
  /\ UNCHANGED <<nextId, exitCode, noCleanup, waiter, waitErr, jobs, owners,
                 held, stopped, returned>>
  /\ UNCHANGED busVars
  /\ UNCHANGED <<rpcVars, shutVars, lockVars, supervisor, desc>>

\* localJob.Status
Status(j) ==
  /\ j \in held
  /\ lastOp' = Op("Status", j, NoIdentity, NULL, status[j], exitCode[j], FALSE, FALSE)
  /\ UNCHANGED <<nextId, status, exitCode, cmd, cgroup, cleanups, noCleanup,
                 child, waiter, waitErr, jobs, owners, held, stopped, returned>>
  /\ UNCHANGED busVars
  /\ UNCHANGED hostVars

\* The results syscall.Kill(-pid, SIGKILL) can have for job j: ESRCH once the
\* child has been reaped, otherwise success or another errno.
KillResults(j) ==
  IF child[j] = Reaped THEN {"ESRCH"} ELSE {"ok", "EPERM"}

\* Whether Cgroup.Kill can fail for job j (it is only called on a cgroup).
KillErrors(j) == IF cgroup[j] = "nil" THEN {FALSE} ELSE BOOLEAN

\* The processes the child forked, after a kill: they sit in the child's
\* cgroup and process group, so a kill that was delivered ends them too.
DescAfterKill(d, killed) == d /\ ~killed

\* The processes the child forked, after the child started with attributes a
\* has died: the kernel SIGKILLs what is left of a PID namespace when its
\* PID 1 exits; without the namespace they live on.
DescAfterChildDeath(a, d) == d /\ ~a.newpid

\* The child after a Stop whose kill reached the cgroup or the process group.
ChildAfterKill(c, killed) ==
  IF killed /\ c = Alive THEN Disp("signal", SIGKILL) ELSE c

\* localJob.Stop
Stop(j) ==
  /\ j \in held
  /\ \E cgErr \in KillErrors(j), sig \in KillResults(j) :
     LET r == StopOutcome(status[j], exitCode[j], cgroup[j], cgErr, sig) IN
     /\ status' = [status EXCEPT ![j] = r.status]
     /\ exitCode' = [exitCode EXCEPT ![j] = r.exitCode]
     /\ child' = [child EXCEPT ![j] = ChildAfterKill(@, r.killed)]
     /\ desc' = [desc EXCEPT ![j] = DescAfterKill(@, r.killed)]
     /\ stopped' = [stopped EXCEPT ![j] = @ \/ r.err = NULL]
     /\ lastOp' = [Op("Stop", j, NoIdentity, r.err, r.status, r.exitCode,
                       r.cgKill, r.pgKill) EXCEPT !.cgFailed = r.cgFailed,
                                                !.sig = r.sig]
  /\ UNCHANGED <<nextId, cmd, cgroup, cleanups, noCleanup, waiter, waitErr,
                 jobs, owners, held, returned>>
  /\ UNCHANGED busVars
  /\ UNCHANGED <<rpcVars, shutVars, lockVars, supervisor, attr>>

\* The child ends on its own (exit or a signal not sent by Stop).
ChildExit(j, d) ==
  /\ child[j] = Alive
  /\ child' = [child EXCEPT ![j] = d]
  /\ desc' = [desc EXCEPT ![j] = DescAfterChildDeath(attr[j], @)]
  /\ lastOp' = NoOp
  /\ UNCHANGED <<nextId, status, exitCode, cmd, cgroup, cleanups, noCleanup,
                 waiter, waitErr, jobs, owners, held, stopped, returned>>
  /\ UNCHANGED busVars
  /\ UNCHANGED <<rpcVars, shutVars, lockVars, supervisor, attr>>

\* The child of job j forks a process that outlives the fork call.
Fork(j) ==
  /\ child[j] = Alive
  /\ ~desc[j]
  /\ desc' = [desc EXCEPT ![j] = TRUE]
  /\ UNCHANGED <<busVars, jobVars, rpcVars, shutVars, lockVars, supervisor, attr>>

\* The processes the child of job j forked end on their own.
DescExit(j) ==
  /\ desc[j]
  /\ desc' = [desc EXCEPT ![j] = FALSE]
  /\ UNCHANGED <<busVars, jobVars, rpcVars, shutVars, lockVars, supervisor, attr>>

\* The teleworker process ends: it returns from main, or a signal it cannot
\* catch kills it. None of its goroutines runs again.
SupervisorExit ==
  /\ supervisor = "up"
  /\ supervisor' = "exited"
  /\ UNCHANGED <<busVars, jobVars, rpcVars, shutVars, lockVars, attr, desc>>

\* The kernel delivers the parent-death signal of SysProcAttr.Pdeathsig to the
\* child of job j once the supervisor is gone.
Pdeathsig(j) ==
  /\ supervisor = "exited"
  /\ child[j] = Alive
  /\ attr[j].pdeathsig = SIGKILL
  /\ child' = [child EXCEPT ![j] = Disp("signal", SIGKILL)]
  /\ desc' = [desc EXCEPT ![j] = DescAfterChildDeath(attr[j], @)]
  /\ UNCHANGED <<nextId, status, exitCode, cmd, cgroup, cleanups, noCleanup,
                 waiter, waitErr, jobs, owners, held, stopped, returned, lastOp>>
  /\ UNCHANGED <<busVars, rpcVars, shutVars, lockVars, supervisor, attr>>

\* localJob.Wait is called on a started job (it can only be called once).
WaitCall(j) ==
  /\ j \in held
  /\ cmd[j]
  /\ waiter[j] = "none"
  /\ waiter' = [waiter EXCEPT ![j] = "blocked"]
  /\ lastOp' = NoOp
  /\ UNCHANGED <<nextId, status, exitCode, cmd, cgroup, cleanups, noCleanup,
                 child, waitErr, jobs, owners, held, stopped, returned>>
  /\ UNCHANGED busVars
  /\ UNCHANGED hostVars

\* localJob.Wait: `err := l.cmd.Wait()` returns once the child is dead.
WaitReap(j) ==
  /\ waiter[j] = "blocked"
  /\ Dead(child[j])
  /\ \E e \in {ExitErrOf(child[j]), OtherErr} :
       waitErr' = [waitErr EXCEPT ![j] = e]
  /\ child' = [child EXCEPT ![j] = Reaped]
  /\ waiter' = [waiter EXCEPT ![j] = "reaped"]
  /\ lastOp' = NoOp
  /\ UNCHANGED <<nextId, status, exitCode, cmd, cgroup, cleanups, noCleanup,
                 jobs, owners, held, stopped, returned>>
  /\ UNCHANGED busVars
  /\ UNCHANGED hostVars

\* The results os.Remove can have on the cgroup directory of job j: EBUSY
\* while processes the child left behind are still in the cgroup, which needs
\* the child to have been spawned into it.
RemoveResults(j) == IF cmd[j] THEN {"ok", "EBUSY"} ELSE {"ok"}

\* localJob.Wait, the deferred function: `if l.cgroup != nil && !l.noCleanup`
WaitCleansUpNever(cg, nc) == FALSE
WaitCleansUp(cg, nc) == cg # "nil" /\ ~nc

\* localJob.Wait: with the job mutex held, publish status and exit code, then
\* (deferred) clean up the cgroup. Its effect on the job.
WaitCommitJob(j) ==
  /\ waiter[j] = "reaped"
  /\ status' = [status EXCEPT ![j] = WaitStatus(@, waitErr[j])]
  /\ exitCode' = [exitCode EXCEPT ![j] = WaitExitCode(@, waitErr[j])]
  /\ IF WaitCleansUp(cgroup[j], noCleanup)
       THEN /\ \E rm \in RemoveResults(j) :
                 cgroup' = [cgroup EXCEPT ![j] = Cleanup(@, rm)]
            /\ cleanups' = [cleanups EXCEPT ![j] = @ + 1]
       ELSE UNCHANGED <<cgroup, cleanups>>
  /\ waiter' = [waiter EXCEPT ![j] = "done"]
  /\ lastOp' = Op("Wait", j, NoIdentity, NULL, WaitStatus(status[j], waitErr[j]),
                  WaitExitCode(exitCode[j], waitErr[j]), FALSE, FALSE)
  /\ UNCHANGED <<nextId, cmd, noCleanup, child, waitErr, jobs, owners, held, stopped, returned>>

\* localJob.Wait after cmd.Wait has returned.
WaitCommit(j) ==
  /\ WaitCommitJob(j)
  /\ UNCHANGED busVars
  /\ UNCHANGED hostVars

\* ------------------------------------------------- Registry and RPC adapter

\* Worker.GetJobOwner: the recorded owner, or ErrJobNotFound.
GetJobOwner(id) ==
  IF id \in DOMAIN owners
    THEN [owner |-> owners[id], err |-> NULL]
    ELSE [owner |-> NoIdentity, err |-> "NotFound"]

\* Server.authorize after auth.FromContext: admins pass; otherwise the caller
\* must carry the username recorded as the job's owner.
IsAdmin(who) == who.role = "admin"

AuthorizedAnyone(who, id) == TRUE
AuthorizedIfExists(who, id) == IsAdmin(who) \/ id \in DOMAIN owners
Authorized(who, id) ==
  \/ IsAdmin(who)
  \/ /\ GetJobOwner(id).err = NULL
     /\ GetJobOwner(id).owner.username = who.username

\* Worker.getJob
GetJobAlways(id) == TRUE
GetJob(id) == id \in jobs

\* The record of a StartJob call: the command it was given, the id it returned
\* (0: none), its error and the job's status.
StartOp(command, id, owner, code, st) ==
  [Op("StartJob", id, owner, code, st, NoExit, FALSE, FALSE) EXCEPT !.command = command]

\* Worker.trackJob, the owners map after `w.owners[jobID] = owner`.
TrackOwnerOmitted(os, id, owner) == os
TrackOwner(os, id, owner) ==
  [x \in DOMAIN os \cup {id} |-> IF x = id THEN owner ELSE os[x]]

\* Worker.StartJob: w.trackJob is reached only past `if err := j.Start();
\* err != nil { return "", err }`.
TrackJobAlways(err) == TRUE
TrackJobDue(err) == err = NULL

\* Worker.StartJob(jobType, command, args, owner). out names how far it gets:
\* CreateCgroup fails, NewJob rejects the job type, Start fails to spawn, or
\* the job is started (in a new PID namespace: "ok"; on the second attempt,
\* without one: "okFallback"), tracked and its waiter launched.
StartJob(command, owner, out) ==
  LET j == nextId IN
  /\ j \in JobIds
  /\ nextId' = j + 1
  /\ \/ /\ out = "cgroupFail"
        /\ lastOp' = StartOp(command, 0, owner, "CreateCgroupFailed", NULL)
        /\ UNCHANGED <<status, cgroup, cleanups, cmd, child, waiter, jobs, owners,
                       returned, attr>>
     \/ /\ out = "badType"
        /\ cgroup' = [cgroup EXCEPT ![j] = Cleanup("open", "ok")]
        /\ cleanups' = [cleanups EXCEPT ![j] = @ + 1]
        /\ lastOp' = StartOp(command, 0, owner, "UnknownJobType", NULL)
        /\ UNCHANGED <<status, cmd, child, waiter, jobs, owners, returned, attr>>
     \/ /\ out \in {"spawnFail", "ok", "okFallback"}
        /\ LET sp == Spawn(out = "ok", out = "okFallback")
               r == StartOutcome("Submitted", "open", sp.ok) IN
           /\ attr' = [attr EXCEPT ![j] = IF r.spawned THEN SysProcAttr(sp.usePIDNS) ELSE @]
           /\ status' = [status EXCEPT ![j] = r.status]
           /\ cgroup' = [cgroup EXCEPT ![j] = r.cgroup]
           /\ cleanups' = [cleanups EXCEPT ![j] = IF r.cleaned THEN @ + 1 ELSE @]
           /\ cmd' = [cmd EXCEPT ![j] = r.spawned]
           /\ child' = [child EXCEPT ![j] = IF r.spawned THEN Alive ELSE @]
           /\ IF TrackJobDue(r.err)
                THEN /\ jobs' = jobs \cup {j}
                     /\ owners' = TrackOwner(owners, j, owner)
                     /\ waiter' = [waiter EXCEPT ![j] = "blocked"]
                     /\ returned' = returned \cup {j}
                     /\ lastOp' = StartOp(command, j, owner, NULL, r.status)
                ELSE /\ lastOp' = StartOp(command, 0, owner, r.err, r.status)
                     /\ UNCHANGED <<jobs, owners, waiter, returned>>
  /\ UNCHANGED <<exitCode, noCleanup, waitErr, held, stopped>>
  /\ UNCHANGED busVars
  /\ UNCHANGED <<rpcVars, shutVars, lockVars, supervisor, desc>>

\* Server.StartJob: `if req.GetCommand() == ""`
InvalidCommandNever(command) == FALSE
InvalidCommand(command) == command = ""

\* Server.StartJob: an empty command is refused with InvalidArgument before the
\* worker is called; otherwise Worker.StartJob runs under the caller's
\* identity (the adapter reports each of its errors as Internal).
ServerStartJob(who, command, out) ==
  IF InvalidCommand(command)
    THEN /\ lastOp' = StartOp(command, 0, who, "InvalidArgument", NULL)
         /\ UNCHANGED <<nextId, status, exitCode, cmd, cgroup, cleanups, noCleanup,
                        child, waiter, waitErr, jobs, owners, held, stopped, returned>>
         /\ UNCHANGED busVars
         /\ UNCHANGED hostVars
    ELSE StartJob(command, who, out)

\* Server.GetJobStatus: authorize, then Worker.GetJobStatus (getJob, Status).
GetJobStatus(who, id) ==
  /\ IF ~Authorized(who, id) \/ ~GetJob(id)
       THEN /\ lastOp' = Op("GetJobStatus", id, who, "NotFound", NULL, NoExit, FALSE, FALSE)
       ELSE /\ lastOp' = Op("GetJobStatus", id, who, NULL, status[id], exitCode[id], FALSE, FALSE)
  /\ UNCHANGED <<nextId, status, exitCode, cmd, cgroup, cleanups, noCleanup,
                 child, waiter, waitErr, jobs, owners, held, stopped, returned>>
  /\ UNCHANGED busVars
  /\ UNCHANGED hostVars

\* Server.StopJob: authorize, then Worker.StopJob (getJob, Stop); NotRunning
\* is mapped to FailedPrecondition and any other error to Internal.
StopJob(who, id) ==
  /\ IF ~Authorized(who, id) \/ ~GetJob(id)
       THEN /\ lastOp' = Op("StopJob", id, who, "NotFound", NULL, NoExit, FALSE, FALSE)
            /\ UNCHANGED <<status, exitCode, child, stopped, desc>>
       ELSE \E cgErr \in KillErrors(id), sig \in KillResults(id) :
            LET r == StopOutcome(status[id], exitCode[id], cgroup[id], cgErr, sig)
                   code == IF r.err = "NotRunning" THEN "FailedPrecondition"
                           ELSE IF r.err # NULL THEN "Internal" ELSE NULL
               IN /\ status' = [status EXCEPT ![id] = r.status]
                  /\ exitCode' = [exitCode EXCEPT ![id] = r.exitCode]
                  /\ child' = [child EXCEPT ![id] = ChildAfterKill(@, r.killed)]
                  /\ desc' = [desc EXCEPT ![id] = DescAfterKill(@, r.killed)]
                  /\ stopped' = [stopped EXCEPT ![id] = @ \/ r.err = NULL]
                  /\ lastOp' = [Op("StopJob", id, who, code, r.status, r.exitCode,
                                   r.cgKill, r.pgKill) EXCEPT !.cgFailed = r.cgFailed,
                                                !.sig = r.sig]
  /\ UNCHANGED <<nextId, cmd, cgroup, cleanups, noCleanup, waiter, waitErr,
                 jobs, owners, held, returned>>
  /\ UNCHANGED busVars
  /\ UNCHANGED <<rpcVars, shutVars, lockVars, supervisor, attr>>

\* Server.StreamOutput once Worker.StreamOutput has succeeded: the subscriber
\* s exists and the handler enters its loop.
StreamOpen(s) ==
  /\ SubscribeBus(s)
  /\ rpc' = [rpc EXCEPT ![s] = "open"]
  /\ UNCHANGED <<rpcCode, ctx, sent>>

\* The job whose Output Bus (Job.Output()) the bus variables are: the job of
\* the first id generated. The buses of the other jobs carry no state here.
BusJob == 1

\* Server.StreamOutput up to the creation of its subscriber: authorize, then
\* Worker.StreamOutput (getJob, Output().Subscribe()). NotFound is returned
\* before any subscriber exists. The handler's loop after that is the
\* subscriber's Read and Close calls.
StreamOutput(who, id) ==
  /\ IF ~Authorized(who, id) \/ ~GetJob(id)
       THEN /\ lastOp' = Op("StreamOutput", id, who, "NotFound", NULL, NoExit, FALSE, FALSE)
            /\ UNCHANGED <<busVars, rpcVars>>
       ELSE /\ lastOp' = Op("StreamOutput", id, who, NULL, NULL, NoExit, FALSE, FALSE)
            /\ IF id = BusJob
                 THEN \E s \in SubIds : StreamOpen(s)
                 ELSE UNCHANGED <<busVars, rpcVars>>
  /\ UNCHANGED <<nextId, status, exitCode, cmd, cgroup, cleanups, noCleanup,
                 child, waiter, waitErr, jobs, owners, held, stopped, returned>>
  /\ UNCHANGED <<shutVars, lockVars, osVars>>

\* Server.StreamOutput past authorize and Worker.StreamOutput, seen from the
\* bus alone.
StreamAdmitted(s) ==
  /\ StreamOpen(s)
  /\ UNCHANGED <<jobVars, shutVars, lockVars, osVars>>

\* `buf := make([]byte, 4096)`: the handler's destination, larger than one Write.
HandlerBuf == MaxDst

\* The handler's loop calls sub.Read(buf).
HandlerRead(s) ==
  /\ rpc[s] = "open"
  /\ ReadBus(s, HandlerBuf)
  /\ rpc' = [rpc EXCEPT ![s] = "reading"]
  /\ UNCHANGED <<rpcCode, ctx, sent>>
  /\ UNCHANGED <<jobVars, shutVars, lockVars, osVars>>

\* What stream.Send can return: nil on a live stream, nil or an error once the
\* stream's context has been cancelled.
SendResults(c) == IF c = "live" THEN {TRUE} ELSE BOOLEAN

\* A handler that goes back to Read after io.ErrClosedPipe.
DispatchRetriesOnClosedPipe(n, err, ok) ==
  IF n > 0 /\ ~ok THEN [next |-> "closing", code |-> "SendErr"]
  ELSE IF err = "EOF" THEN [next |-> "closing", code |-> NULL]
  ELSE [next |-> "open", code |-> NULL]

\* The handler's loop body after sub.Read returned (n, err), where ok is the
\* result of stream.Send when n > 0: what the handler does next and returns.
Dispatch(n, err, ok) ==
  IF n > 0 /\ ~ok THEN [next |-> "closing", code |-> "SendErr"]
  ELSE IF err = "EOF" THEN [next |-> "closing", code |-> NULL]
  ELSE IF err = "ErrClosedPipe" THEN [next |-> "closing", code |-> "Canceled"]
  ELSE [next |-> "open", code |-> NULL]

\* sub.Read has returned to the handler: Send the bytes, then return or loop.
HandlerDispatch(s) ==
  /\ rpc[s] = "reading"
  /\ subPc[s] = "idle"
  /\ LET n == readRes[s][1]
         data == SubSeq(got[s], Len(got[s]) - n + 1, Len(got[s]))
     IN \E ok \in SendResults(ctx[s]) :
          LET r == Dispatch(n, readRes[s][2], ok) IN
          /\ sent' = [sent EXCEPT ![s] = IF n > 0 /\ ok THEN @ \o data ELSE @]
          /\ rpc' = [rpc EXCEPT ![s] = r.next]
          /\ rpcCode' = [rpcCode EXCEPT ![s] = r.code]
  /\ UNCHANGED ctx
  /\ UNCHANGED <<busVars, jobVars, shutVars, lockVars, osVars>>

\* The client goes away or cancels: stream.Context() is cancelled.
CtxCancel(s) ==
  /\ rpc[s] \in {"open", "reading", "closing"}
  /\ ctx[s] = "live"
  /\ ctx' = [ctx EXCEPT ![s] = "cancelled"]
  /\ UNCHANGED <<rpc, rpcCode, sent>>
  /\ UNCHANGED <<busVars, jobVars, shutVars, lockVars, osVars>>

\* A handler that registers no context.AfterFunc.
CloseSubDueOnlyAtExit(s) == rpc[s] = "closing"

\* closeSub is due: the handler is running its deferred calls, or
\* context.AfterFunc(stream.Context(), closeSub) has fired and `stop` has
\* not been called.
CloseSubDue(s) ==
  \/ rpc[s] = "closing"
  \/ ctx[s] = "cancelled" /\ rpc[s] \in {"open", "reading"}

\* closeSub (sync.OnceFunc around sub.Close) runs for the first time.
HandlerCloseSub(s) ==
  /\ CloseSubDue(s)
  /\ closeOnce[s] = "open"
  /\ SubClose(s)

\* The deferred closeSub() has returned (sub.Close has completed, whoever ran
\* it), stop() is called and the handler returns.
HandlerReturn(s) ==
  /\ rpc[s] = "closing"
  /\ closeOnce[s] = "closed"
  /\ rpc' = [rpc EXCEPT ![s] = "returned"]
  /\ UNCHANGED <<rpcCode, ctx, sent>>
  /\ UNCHANGED <<busVars, jobVars, shutVars, lockVars, osVars>>

\* -------------------------------------------------------- Shutdown, host

\* w.mu is not held by Shutdown: the registry's other methods can take it.
RegistryFree == shutdown.pc # "locked"

\* The gRPC server admits new RPCs until GracefulStop is called.
Accepting == grpc = "serving"

\* j.Output().Close() leaving the bus alone.
OutputCloseSkipped(j) == UNCHANGED busVars

\* j.Output().Close()
OutputClose(j) == IF j = BusJob THEN CloseBus ELSE UNCHANGED busVars

\* The child of the bus's job writes p to its stdout or stderr.
ChildWrite(p) ==
  /\ child[BusJob] = Alive
  /\ Write(p)

\* The waiter of job j commits and closes the job's Output Bus.
WaitCommitOut(j) ==
  /\ WaitCommitJob(j)
  /\ OutputClose(j)
  /\ UNCHANGED hostVars

\* The signal goroutine of runServer receives SIGINT or SIGTERM and calls
\* Worker.Shutdown, which takes w.mu.
ShutdownLock ==
  /\ shutdown.pc = "idle"
  /\ shutdown' = [pc |-> "locked", seen |-> jobs, todo |-> jobs, cur |-> 0,
                  stopReq |-> {}]
  /\ lastOp' = Op("ShutdownLock", 0, NoIdentity, NULL, NULL, NoExit, FALSE, FALSE)
  /\ UNCHANGED <<nextId, status, exitCode, cmd, cgroup, cleanups, noCleanup, child,
                 waiter, waitErr, jobs, owners, held, stopped, returned>>
  /\ UNCHANGED <<busVars, rpcVars, grpc, lockVars, osVars>>

\* Worker.Shutdown, `j.Stop()` in its loop over w.jobs; the error is dropped.
ShutdownStop(j) ==
  /\ shutdown.pc = "locked"
  /\ shutdown.cur = 0
  /\ j \in shutdown.todo
  /\ \E cgErr \in KillErrors(j), sig \in KillResults(j) :
       LET r == StopOutcome(status[j], exitCode[j], cgroup[j], cgErr, sig) IN
       /\ status' = [status EXCEPT ![j] = r.status]
       /\ exitCode' = [exitCode EXCEPT ![j] = r.exitCode]
       /\ child' = [child EXCEPT ![j] = ChildAfterKill(@, r.killed)]
       /\ desc' = [desc EXCEPT ![j] = DescAfterKill(@, r.killed)]
       /\ stopped' = [stopped EXCEPT ![j] = @ \/ r.err = NULL]
       /\ lastOp' = [Op("ShutdownStop", j, NoIdentity, r.err, r.status, r.exitCode,
                        r.cgKill, r.pgKill) EXCEPT !.cgFailed = r.cgFailed,
                                                !.sig = r.sig]
  /\ shutdown' = [shutdown EXCEPT !.cur = j, !.stopReq = @ \cup {j}]
  /\ UNCHANGED <<nextId, cmd, cgroup, cleanups, noCleanup, waiter, waitErr,
                 jobs, owners, held, returned>>
  /\ UNCHANGED <<busVars, rpcVars, grpc, lockVars, supervisor, attr>>

\* Worker.Shutdown, `j.Output().Close()` on the job it has just stopped.
ShutdownClose ==
  /\ shutdown.pc = "locked"
  /\ shutdown.cur # 0
  /\ OutputClose(shutdown.cur)
  /\ shutdown' = [shutdown EXCEPT !.cur = 0, !.todo = @ \ {shutdown.cur}]
  /\ lastOp' = Op("ShutdownClose", shutdown.cur, NoIdentity, NULL, NULL, NoExit,
                  FALSE, FALSE)
  /\ UNCHANGED <<nextId, status, exitCode, cmd, cgroup, cleanups, noCleanup, child,
                 waiter, waitErr, jobs, owners, held, stopped, returned>>
  /\ UNCHANGED <<rpcVars, grpc, lockVars, osVars>>

\* Worker.Shutdown returns: the loop is over and the deferred w.mu.Unlock runs.
ShutdownReturn ==
  /\ shutdown.pc = "locked"
  /\ shutdown.cur = 0
  /\ shutdown.todo = {}
  /\ shutdown' = [shutdown EXCEPT !.pc = "done"]
  /\ lastOp' = Op("Shutdown", 0, NoIdentity, NULL, NULL, NoExit, FALSE, FALSE)
  /\ UNCHANGED <<nextId, status, exitCode, cmd, cgroup, cleanups, noCleanup, child,
                 waiter, waitErr, jobs, owners, held, stopped, returned>>
  /\ UNCHANGED <<busVars, rpcVars, grpc, lockVars, osVars>>

\* runServer's signal goroutine calls grpcServer.GracefulStop after
\* Shutdown has returned: the listener closes, no new RPC is admitted.
GracefulStop ==
  /\ shutdown.pc = "done"
  /\ grpc = "serving"
  /\ grpc' = "draining"
  /\ UNCHANGED <<busVars, jobVars, rpcVars, shutdown, lockVars, osVars>>

\* GracefulStop returns once every RPC in flight has returned.
GracefulStopReturn ==
  /\ grpc = "draining"
  /\ \A s \in SubIds : rpc[s] \in {"none", "returned"}
  /\ grpc' = "stopped"
  /\ UNCHANGED <<busVars, jobVars, rpcVars, shutdown, lockVars, osVars>>

\* ------------------------------------------------------------------ locks

\* The goroutines that take locks: the handler of a unary RPC, the handler of
\* a StreamOutput, the goroutine that writes a job's output or closes a
\* subscriber, a waiter, and the signal goroutine.
LockThreads == {"rpc", "stream", "bus", "waiter", "shutdown"}

\* Worker.mu, the mutex of job j, the mutex of the Output Bus of job j.
WMu == <<"w", 0>>
LMu(j) == <<"l", j>>
BMu(j) == <<"b", j>>
Mutexes == {LMu(j) : j \in JobIds} \cup {BMu(j) : j \in JobIds}

\* One step of a call that touches a lock or the condition variable.
Step(kind, m) == [kind |-> kind, m |-> m]

\* Worker.GetJobOwner, Worker.getJob: w.mu.RLock(); defer w.mu.RUnlock()
RegistryRead == <<Step("RLock", WMu), Step("RUnlock", WMu)>>

\* Worker.trackJob: w.mu.Lock(); defer w.mu.Unlock(). Lock() first stops new
\* readers from entering ("WLockReq"), then waits for the lock ("WLock").
TrackJobLocks == <<Step("WLockReq", WMu), Step("WLock", WMu), Step("WUnlock", WMu)>>

\* localJob.Start, Status, Stop: l.mu.Lock(); defer l.mu.Unlock()
JobCall(j) == <<Step("Lock", LMu(j)), Step("Unlock", LMu(j))>>

\* Buffer.Write, Buffer.Close and inMemoryLogSubscriber.Close: the bus mutex
\* is taken, cond.Broadcast is called, the mutex is released.
BusCall(j) == <<Step("Lock", BMu(j)), Step("Broadcast", BMu(j)), Step("Unlock", BMu(j))>>

\* inMemoryLogSubscriber.Read: the bus mutex is taken; the loop parks in
\* cond.Wait any number of times; the mutex is released on return.
ReadLocks(j) == <<Step("Lock", BMu(j)), Step("Wait", BMu(j)), Step("Unlock", BMu(j))>>

\* A GetJobStatus that keeps the read lock of authorize while it looks the
\* job up.
GetJobStatusLocksNested(j) ==
  <<Step("RLock", WMu), Step("RLock", WMu), Step("RUnlock", WMu),
    Step("RUnlock", WMu)>> \o JobCall(j)

\* Server.GetJobStatus: authorize (GetJobOwner), Worker.GetJobStatus (getJob,
\* then j.Status() with the registry lock released).
GetJobStatusLocks(j) == RegistryRead \o RegistryRead \o JobCall(j)

\* The waiter closes the job's Output Bus while it holds the job mutex.
WaiterOutputClose(j) == BusCall(j)

\* localJob.Wait after cmd.Wait: l.mu.Lock(), the commit, l.mu.Unlock().
WaitLocks(j) ==
  <<Step("Lock", LMu(j))>> \o WaiterOutputClose(j) \o <<Step("Unlock", LMu(j))>>

\* Worker.Shutdown's loop over the first n jobs: j.Stop(), j.Output().Close().
RECURSIVE ShutdownLoop(_)
ShutdownLoop(n) ==
  IF n = 0 THEN <<>> ELSE ShutdownLoop(n - 1) \o JobCall(n) \o BusCall(n)

\* Worker.Shutdown: w.mu.Lock(); defer w.mu.Unlock(); the loop over w.jobs.
ShutdownLocks ==
  <<Step("WLockReq", WMu), Step("WLock", WMu)>>
    \o ShutdownLoop(MaxJobs) \o <<Step("WUnlock", WMu)>>

\* The lock script of a call.
\*   Worker.StartJob: j.Start(), then w.trackJob.
\*   Server.StopJob: authorize, Worker.StopJob (getJob, then j.Stop()).
\*   Server.StreamOutput: authorize, Worker.StreamOutput (getJob; Subscribe
\*   takes no lock), sub.Read, and closeSub on the way out.
Script(op, j) ==
  CASE op = "StartJob" -> JobCall(j) \o TrackJobLocks
    [] op = "GetJobStatus" -> GetJobStatusLocks(j)
    [] op = "StopJob" -> RegistryRead \o RegistryRead \o JobCall(j)
    [] op = "StreamOutput" ->
         RegistryRead \o RegistryRead \o ReadLocks(j) \o BusCall(j)
    [] op = "Write" -> BusCall(j)
    [] op = "Wait" -> WaitLocks(j)
    [] op = "Shutdown" -> ShutdownLocks

\* The calls each goroutine makes.
OpsOf(t) ==
  CASE t = "rpc" -> {"StartJob", "GetJobStatus", "StopJob"}
    [] t = "stream" -> {"StreamOutput"}
    [] t = "bus" -> {"Write"}
    [] t = "waiter" -> {"Wait"}
    [] t = "shutdown" -> {"Shutdown"}

\* A goroutine in no call; one whose only call has returned.
Idle == [op |-> "idle", job |-> 0, pc |-> 0, st |-> "run"]
Gone == [op |-> "done", job |-> 0, pc |-> 0, st |-> "run"]

\* The step goroutine t is at.
Cur(t) == Script(thread[t].op, thread[t].job)[thread[t].pc]

\* Goroutine t is at a step of kind k and is not in cond.Wait.
At(t, k) ==
  /\ thread[t].op \notin {"idle", "done"}
  /\ thread[t].st = "run"
  /\ Cur(t).kind = k

\* Goroutine t after its current step: the next step, or out of the call
\* (Shutdown is called once).
Advance(t) ==
  IF thread[t].pc < Len(Script(thread[t].op, thread[t].job))
    THEN [thread[t] EXCEPT !.pc = @ + 1]
    ELSE IF t = "shutdown" THEN Gone ELSE Idle

\* Goroutine t enters call op on job j.
LockCall(t, op, j) ==
  /\ thread[t] = Idle
  /\ op \in OpsOf(t)
  /\ thread' = [thread EXCEPT ![t] = [op |-> op, job |-> j, pc |-> 1, st |-> "run"]]
  /\ UNCHANGED mutex
  /\ UNCHANGED <<busVars, jobVars, rpcVars, shutVars, osVars>>

\* sync.Mutex.Lock
MutexLock(t) ==
  /\ At(t, "Lock")
  /\ mutex.m[Cur(t).m] = NULL
  /\ mutex' = [mutex EXCEPT !.m[Cur(t).m] = t]
  /\ thread' = [thread EXCEPT ![t] = Advance(t)]
  /\ UNCHANGED <<busVars, jobVars, rpcVars, shutVars, osVars>>

\* sync.Mutex.Unlock
MutexUnlock(t) ==
  /\ At(t, "Unlock")
  /\ mutex' = [mutex EXCEPT !.m[Cur(t).m] = NULL]
  /\ thread' = [thread EXCEPT ![t] = Advance(t)]
  /\ UNCHANGED <<busVars, jobVars, rpcVars, shutVars, osVars>>

\* sync.RWMutex.RLock: blocks while a writer holds the lock or is in Lock().
RLock(t) ==
  /\ At(t, "RLock")
  /\ mutex.w.writer = NULL
  /\ mutex.w.pending = {}
  /\ mutex' = [mutex EXCEPT !.w.readers = @ \cup {t}]
  /\ thread' = [thread EXCEPT ![t] = Advance(t)]
  /\ UNCHANGED <<busVars, jobVars, rpcVars, shutVars, osVars>>

\* sync.RWMutex.RUnlock
RUnlock(t) ==
  /\ At(t, "RUnlock")
  /\ mutex' = [mutex EXCEPT !.w.readers = @ \ {t}]
  /\ thread' = [thread EXCEPT ![t] = Advance(t)]
  /\ UNCHANGED <<busVars, jobVars, rpcVars, shutVars, osVars>>

\* sync.RWMutex.Lock is called: from now on no new reader gets in.
WLockReq(t) ==
  /\ At(t, "WLockReq")
  /\ mutex' = [mutex EXCEPT !.w.pending = @ \cup {t}]
  /\ thread' = [thread EXCEPT ![t] = Advance(t)]
  /\ UNCHANGED <<busVars, jobVars, rpcVars, shutVars, osVars>>

\* sync.RWMutex.Lock returns: no writer and no reader holds the lock.
WLock(t) ==
  /\ At(t, "WLock")
  /\ mutex.w.writer = NULL
  /\ mutex.w.readers = {}
  /\ mutex' = [mutex EXCEPT !.w.writer = t, !.w.pending = @ \ {t}]
  /\ thread' = [thread EXCEPT ![t] = Advance(t)]
  /\ UNCHANGED <<busVars, jobVars, rpcVars, shutVars, osVars>>

\* sync.RWMutex.Unlock
WUnlock(t) ==
  /\ At(t, "WUnlock")
  /\ mutex' = [mutex EXCEPT !.w.writer = NULL]
  /\ thread' = [thread EXCEPT ![t] = Advance(t)]
  /\ UNCHANGED <<busVars, jobVars, rpcVars, shutVars, osVars>>

\* cond.Broadcast by the holder of the bus mutex: every goroutine parked on
\* that bus becomes runnable.
CondBroadcast(t) ==
  /\ At(t, "Broadcast")
  /\ thread' = [u \in LockThreads |->
                  IF u = t THEN Advance(t)
                  ELSE IF /\ thread[u].st = "parked"
                          /\ Cur(u).m = Cur(t).m
                    THEN [thread[u] EXCEPT !.st = "woken"]
                    ELSE thread[u]]
  /\ UNCHANGED mutex
  /\ UNCHANGED <<busVars, jobVars, rpcVars, shutVars, osVars>>

\* Read's loop finds nothing to return: cond.Wait releases the bus mutex and
\* parks the goroutine.
CondWait(t) ==
  /\ At(t, "Wait")
  /\ mutex' = [mutex EXCEPT !.m[Cur(t).m] = NULL]
  /\ thread' = [thread EXCEPT ![t].st = "parked"]
  /\ UNCHANGED <<busVars, jobVars, rpcVars, shutVars, osVars>>

\* Read's loop ends (bytes to copy, EOF or ErrClosedPipe): on to the return.
CondPass(t) ==
  /\ At(t, "Wait")
  /\ thread' = [thread EXCEPT ![t] = Advance(t)]
  /\ UNCHANGED mutex
  /\ UNCHANGED <<busVars, jobVars, rpcVars, shutVars, osVars>>

\* cond.Wait returns: the woken goroutine has taken the bus mutex again and is
\* back at the top of Read's loop.
CondWake(t) ==
  /\ thread[t].op \notin {"idle", "done"}
  /\ thread[t].st = "woken"
  /\ mutex.m[Cur(t).m] = NULL
  /\ mutex' = [mutex EXCEPT !.m[Cur(t).m] = t]
  /\ thread' = [thread EXCEPT ![t].st = "run"]
  /\ UNCHANGED <<busVars, jobVars, rpcVars, shutVars, osVars>>

\* The goroutines goroutine t cannot get past: the holder of the mutex it is
\* locking; for RLock the writer and the goroutines in Lock(); for Lock() on
\* the registry the writer and the readers. A goroutine parked in cond.Wait
\* waits for no lock.
WaitsFor(t) ==
  IF thread[t].op \in {"idle", "done"} \/ thread[t].st = "parked" THEN {}
  ELSE IF thread[t].st = "woken" \/ Cur(t).kind = "Lock"
    THEN {mutex.m[Cur(t).m]} \ {NULL}
  ELSE IF Cur(t).kind = "RLock"
    THEN ({mutex.w.writer} \ {NULL}) \cup mutex.w.pending
  ELSE IF Cur(t).kind = "WLock"
    THEN ({mutex.w.writer} \ {NULL}) \cup mutex.w.readers
  ELSE {}

\* Every goroutine of D waits for a lock that a goroutine of D must release.
Deadlocked(D) == D # {} /\ \A t \in D : WaitsFor(t) \cap D # {}

LockInit ==
  /\ thread = [t \in LockThreads |-> Idle]
  /\ mutex = [w |-> [writer |-> NULL, readers |-> {}, pending |-> {}],
              m |-> [x \in Mutexes |-> NULL]]

\* Every interleaving of the calls' lock steps.
NextLocks ==
  \/ \E t \in LockThreads, op \in {"StartJob", "GetJobStatus", "StopJob",
                                   "StreamOutput", "Write", "Wait"},
        j \in JobIds : LockCall(t, op, j)
  \/ LockCall("shutdown", "Shutdown", 0)
  \/ \E t \in LockThreads : MutexLock(t)
  \/ \E t \in LockThreads : MutexUnlock(t)
  \/ \E t \in LockThreads : RLock(t)
  \/ \E t \in LockThreads : RUnlock(t)
  \/ \E t \in LockThreads : WLockReq(t)
  \/ \E t \in LockThreads : WLock(t)
  \/ \E t \in LockThreads : WUnlock(t)
  \/ \E t \in LockThreads : CondBroadcast(t)
  \/ \E t \in LockThreads : CondWait(t)
  \/ \E t \in LockThreads : CondPass(t)
  \/ \E t \in LockThreads : CondWake(t)

\* ------------------------------------------------------- initial states

BusInit ==
  /\ buf = <<>>
  /\ closed = FALSE
  /\ subPc = [s \in SubIds |-> "none"]
  /\ offset = [s \in SubIds |-> 0]
  /\ done = [s \in SubIds |-> FALSE]
  /\ closeOnce = [s \in SubIds |-> "open"]
  /\ dstLen = [s \in SubIds |-> 0]
  /\ readRes = [s \in SubIds |-> <<0, NULL>>]
  /\ written = <<>>
  /\ got = [s \in SubIds |-> <<>>]
  /\ writeRes = <<0, NULL>>
  /\ busOp = BusOp("none", 0)
  /\ cancelAt = [s \in SubIds |-> NoCancel]

\* No stream handler, no signal, a running supervisor, no child.
HostInit ==
  /\ rpc = [s \in SubIds |-> "none"]
  /\ rpcCode = [s \in SubIds |-> NULL]
  /\ ctx = [s \in SubIds |-> "live"]
  /\ sent = [s \in SubIds |-> <<>>]
  /\ shutdown = [pc |-> "idle", seen |-> {}, todo |-> {}, cur |-> 0, stopReq |-> {}]
  /\ grpc = "serving"
  /\ supervisor = "up"
  /\ attr = [j \in JobIds |-> NoAttr]
  /\ desc = [j \in JobIds |-> FALSE]
  /\ LockInit

BusNext ==
  \/ \E p \in Slices(0, MaxWrite) : Write(p)
  \/ Close
  \/ \E s \in SubIds : Subscribe(s)
  \/ \E s \in SubIds, n \in 1..MaxDst : Read(s, n)
  \/ \E s \in SubIds : ReadResume(s)
  \/ \E s \in SubIds : SubClose(s)
  \/ \E s \in SubIds : SubCloseBroadcast(s)

JobInit ==
  /\ nextId = 1
  /\ status = [j \in JobIds |-> NULL]
  /\ exitCode = [j \in JobIds |-> NoExit]
  /\ cmd = [j \in JobIds |-> FALSE]
  /\ cgroup = [j \in JobIds |-> "nil"]
  /\ cleanups = [j \in JobIds |-> 0]
  /\ child = [j \in JobIds |-> NoChild]
  /\ waiter = [j \in JobIds |-> "none"]
  /\ waitErr = [j \in JobIds |-> NoErr]
  /\ jobs = {}
  /\ owners = [x \in {} |-> NoIdentity]
  /\ held = {}
  /\ stopped = [j \in JobIds |-> FALSE]
  /\ returned = {}
  /\ lastOp = NoOp

\* Callers of package job: job objects built with NewJob and driven directly.
JobNext ==
  \/ \E j \in JobIds, cg \in {"nil", "open"} : NewJob(j, cg)
  \/ \E j \in JobIds, first \in BOOLEAN, second \in BOOLEAN : Start(j, first, second)
  \/ \E j \in JobIds : Status(j)
  \/ \E j \in JobIds : Stop(j)
  \/ \E j \in JobIds, d \in OwnExits : ChildExit(j, d)
  \/ \E j \in JobIds : WaitCall(j)
  \/ \E j \in JobIds : WaitReap(j)
  \/ \E j \in JobIds : WaitCommit(j)

\* Callers of the RPC adapter: jobs exist only through Worker.StartJob.
Next ==
  \/ \E who \in Owners, command \in Commands,
        out \in {"cgroupFail", "badType", "spawnFail", "ok"} :
       ServerStartJob(who, command, out)
  \/ \E who \in Identities, id \in JobIds : GetJobStatus(who, id)
  \/ \E who \in Identities, id \in JobIds : StopJob(who, id)
  \/ \E j \in JobIds, d \in OwnExits : ChildExit(j, d)
  \/ \E j \in JobIds : WaitReap(j)
  \/ \E j \in JobIds : WaitCommit(j)

Init == BusInit /\ JobInit /\ HostInit /\ noCleanup \in BOOLEAN

\* The registry and the adapter over the jobs they start.
Spec == Init /\ [][Next]_vars

InitStream == BusInit /\ JobInit /\ HostInit /\ noCleanup = FALSE

\* Job objects used directly through the Job interface, cgroup cleanup enabled.
SpecJob == InitStream /\ [][JobNext]_vars

\* Callers of the RPC adapter that also open output streams.
\* The ways a child ends on its own under SpecStream and SpecLife: the
\* registry, the adapter and the bus treat all exit codes alike.
StreamExits == {Disp("exit", 0), Disp("signal", SIGKILL)}

NextStream ==
  \/ \E who \in Owners, out \in {"spawnFail", "ok"} :
       ServerStartJob(who, "true", out)
  \/ \E who \in Identities, id \in JobIds : GetJobStatus(who, id)
  \/ \E who \in Identities, id \in JobIds : StopJob(who, id)
  \/ \E who \in Identities, id \in JobIds : StreamOutput(who, id)
  \/ \E j \in JobIds, d \in StreamExits : ChildExit(j, d)
  \/ \E j \in JobIds : WaitReap(j)
  \/ \E j \in JobIds : WaitCommit(j)

\* The registry and the adapter with StreamOutput, cgroup cleanup enabled.
SpecStream == InitStream /\ [][NextStream]_vars

\* One Output Bus and its subscribers; no job exists.
InitBus == BusInit /\ JobInit /\ HostInit /\ noCleanup = FALSE

SpecBus == InitBus /\ [][BusNext]_vars

\* The goroutines of one Output Bus under the Go scheduler: a goroutine that is
\* runnable (woken from cond.Wait, or inside closeOnce.Do waiting for the bus
\* mutex) eventually runs. Callers need never call Write, Close or Read again.
BusFairness ==
  \A s \in SubIds :
    /\ WF_vars(ReadResume(s))
    /\ WF_vars(SubCloseBroadcast(s))

\* The slices written under SpecBusFair: wake-ups depend on how many bytes
\* are written, not on which.
FairWrites == {<<"a">>}

BusNextFair ==
  \/ \E p \in FairWrites : Write(p)
  \/ Close
  \/ \E s \in SubIds : Subscribe(s)
  \/ \E s \in SubIds, n \in 1..MaxDst : Read(s, n)
  \/ \E s \in SubIds : ReadResume(s)
  \/ \E s \in SubIds : SubClose(s)
  \/ \E s \in SubIds : SubCloseBroadcast(s)

SpecBusFair == InitBus /\ [][BusNextFair]_vars /\ BusFairness

\* SpecBusFair with a writer that eventually closes the bus (the job's output
\* ends) and subscribers whose callers go on calling Read, whatever the last
\* Read returned.
DrainFairness ==
  /\ BusFairness
  /\ WF_vars(Close)
  /\ \A s \in SubIds : WF_vars(\E n \in 1..MaxDst : Read(s, n))

SpecBusDrain == InitBus /\ [][BusNextFair]_vars /\ DrainFairness

\* Callers of package resources: cgroups made, killed and cleaned up directly.
NextResources ==
  \/ \E j \in JobIds, fails \in SUBSET {CreateSteps[i] : i \in 1..Len(CreateSteps)} :
       CreateCgroup(j, fails)
  \/ \E j \in JobIds : CgroupKill(j)
  \/ \E j \in JobIds : CgroupCleanup(j)

SpecResources == InitStream /\ [][NextResources]_vars

\* The locks of the registry, the jobs and their buses, and the goroutines
\* that take them.
SpecLocks == InitStream /\ [][NextLocks]_vars

\* The supervisor with the processes of its jobs, up to and after its exit.
NextOrphan ==
  \/ /\ supervisor = "up"
     /\ \/ \E who \in Owners, command \in Commands,
              out \in {"spawnFail", "ok", "okFallback"} :
             ServerStartJob(who, command, out)
        \/ \E j \in JobIds : WaitReap(j)
        \/ \E j \in JobIds : WaitCommit(j)
  \/ \E j \in JobIds, d \in OwnExits : ChildExit(j, d)
  \/ \E j \in JobIds : Fork(j)
  \/ \E j \in JobIds : DescExit(j)
  \/ SupervisorExit
  \/ \E j \in JobIds : Pdeathsig(j)

\* The kernel delivers a pending parent-death signal.
OrphanFairness == \A j \in JobIds : WF_vars(Pdeathsig(j))

SpecOrphan == InitStream /\ [][NextOrphan]_vars /\ OrphanFairness

\* One Output Bus read by StreamOutput handlers only.
NextHandler ==
  \/ \E p \in FairWrites : Write(p)
  \/ Close
  \/ \E s \in SubIds : StreamAdmitted(s)
  \/ \E s \in SubIds : HandlerRead(s)
  \/ \E s \in SubIds : ReadResume(s)
  \/ \E s \in SubIds : HandlerDispatch(s)
  \/ \E s \in SubIds : CtxCancel(s)
  \/ \E s \in SubIds : HandlerCloseSub(s)
  \/ \E s \in SubIds : SubCloseBroadcast(s)
  \/ \E s \in SubIds : HandlerReturn(s)

\* Every goroutine of a handler that can run does run: the handler itself, and
\* the one context.AfterFunc starts. Writers, the bus Close and the client's
\* cancellation are under no obligation.
HandlerFairness ==
  \A s \in SubIds :
    /\ WF_vars(HandlerRead(s))
    /\ WF_vars(ReadResume(s))
    /\ WF_vars(HandlerDispatch(s))
    /\ WF_vars(HandlerCloseSub(s))
    /\ WF_vars(SubCloseBroadcast(s))
    /\ WF_vars(HandlerReturn(s))

SpecHandler == InitBus /\ [][NextHandler]_vars /\ HandlerFairness

\* The callers of the host's RPCs: one client.
HostCallers == {id \in Identities : id.username = "alice"}

\* The host: RPCs while it serves (StartJob, and one StreamOutput on the bus's
\* job), the jobs' processes and waiters, the StreamOutput handler, and the
\* signal goroutine.
NextHost ==
  \/ /\ Accepting
     /\ RegistryFree
     /\ \/ \E who \in HostCallers : ServerStartJob(who, "true", "ok")
        \/ /\ \A s \in SubIds : rpc[s] = "none"
           /\ \E who \in HostCallers, id \in JobIds : StreamOutput(who, id)
  \/ \E p \in FairWrites : ChildWrite(p)
  \/ \E j \in JobIds : ChildExit(j, Disp("exit", 0))
  \/ \E j \in JobIds : WaitReap(j)
  \/ \E j \in JobIds : WaitCommitOut(j)
  \/ \E s \in SubIds : HandlerRead(s)
  \/ \E s \in SubIds : ReadResume(s)
  \/ \E s \in SubIds : HandlerDispatch(s)
  \/ \E s \in SubIds : HandlerCloseSub(s)
  \/ \E s \in SubIds : SubCloseBroadcast(s)
  \/ \E s \in SubIds : HandlerReturn(s)
  \/ ShutdownLock
  \/ \E j \in JobIds : ShutdownStop(j)
  \/ ShutdownClose
  \/ ShutdownReturn
  \/ GracefulStop
  \/ GracefulStopReturn

SpecHost == InitStream /\ [][NextHost]_vars

\* The jobs started under SpecLife: the waiter and the bus treat all jobs
\* alike.
LifeJobs == {BusJob}

\* The life of jobs under a serving host: StartJob, StopJob and StreamOutput
\* calls of one client, the children writing and ending, the waiters, and the
\* StreamOutput handlers of clients that stay connected.
NextLife ==
  \/ \E who \in HostCallers, out \in {"spawnFail", "ok"} :
       nextId \in LifeJobs /\ ServerStartJob(who, "true", out)
  \/ \E who \in HostCallers, id \in LifeJobs : StopJob(who, id)
  \/ \E who \in HostCallers, id \in LifeJobs : StreamOutput(who, id)
  \/ \E p \in FairWrites : ChildWrite(p)
  \/ \E j \in JobIds, d \in StreamExits : ChildExit(j, d)
  \/ \E j \in JobIds : WaitReap(j)
  \/ \E j \in JobIds : WaitCommitOut(j)
  \/ \E s \in SubIds : HandlerRead(s)
  \/ \E s \in SubIds : ReadResume(s)
  \/ \E s \in SubIds : HandlerDispatch(s)
  \/ \E s \in SubIds : HandlerCloseSub(s)
  \/ \E s \in SubIds : SubCloseBroadcast(s)
  \/ \E s \in SubIds : HandlerReturn(s)

\* The Go scheduler runs every goroutine that can run: the waiters (cmd.Wait
\* returns once the child is dead) and the handlers. Clients and children are
\* under no obligation.
LifeFairness ==
  /\ \A j \in JobIds : WF_vars(WaitReap(j)) /\ WF_vars(WaitCommitOut(j))
  /\ HandlerFairness

SpecLife == InitStream /\ [][NextLife]_vars /\ LifeFairness

\* ------------------------------------------------------------------ claims

IsPrefix(a, b) == Len(a) <= Len(b) /\ a = SubSeq(b, 1, Len(a))

\* C1: for every subscriber, whenever it subscribed, the concatenation of the
\* bytes its reads returned is a prefix of the bytes written to the bus in
\* write order, and once a read has returned EOF it is exactly all of them.
C1_ReadToEOFYieldsAllWritten ==
  \A s \in SubIds :
    /\ IsPrefix(got[s], written)
    /\ (readRes[s][2] = "EOF" => got[s] = written)

\* A subscriber created after the bus was closed with bytes in it has read to EOF.
C1_Witness ==
  \E s \in SubIds :
    /\ readRes[s][2] = "EOF"
    /\ Len(got[s]) = MaxBuf
    /\ \E t \in SubIds : t # s /\ subPc[t] = "none"

\* C2: every change of a job's status is Submitted->Running, Running->Success,
\* Running->Failed or Running->Killed; so a terminal status is never left, and
\* a Status read that returned a terminal status is never followed by a
\* different status.
AllowedChange ==
  { <<"Submitted", "Running">>, <<"Running", "Success">>,
    <<"Running", "Failed">>, <<"Running", "Killed">> }

C2_StatusOnlyAdvances ==
  [][\A j \in JobIds :
       /\ (status[j] # NULL /\ status'[j] # status[j])
            => <<status[j], status'[j]>> \in AllowedChange
       /\ (lastOp.op = "Status" /\ lastOp.id = j /\ lastOp.status \in Terminal)
            => status'[j] = lastOp.status]_vars

\* A job that Stop killed has been through its waiter and is still Killed.
C2_Witness ==
  \E j \in JobIds : status[j] = "Killed" /\ waiter[j] = "done"

\* C3: after Stop returned success, every later status read of the job
\* returns Killed with exit code 137, before and after the waiter's reap.
C3_StopThenKilled137 ==
  (/\ lastOp.op = "GetJobStatus"
   /\ lastOp.code = NULL
   /\ stopped[lastOp.id])
    => (lastOp.status = "Killed" /\ lastOp.exitCode = 137)

C5_ExitCodeFrozen ==
  [][\A j \in JobIds :
       status[j] \in Terminal => exitCode'[j] = exitCode[j]]_vars

\* C6: a job is Killed only if a Stop on it has committed; a job whose child
\* died of a signal without any Stop is Failed with exit code 128 + signal.
C6_KilledOnlyByStop ==
  \A j \in JobIds :
    /\ status[j] = "Killed" => stopped[j]
    /\ (lastOp.op = "GetJobStatus" /\ lastOp.id = j /\ lastOp.status = "Killed")
         => stopped[j]
    /\ (waiter[j] = "done" /\ waitErr[j].kind = "signal" /\ ~stopped[j])
         => (status[j] = "Failed" /\ exitCode[j] = 128 + waitErr[j].val)

\* A child killed by SIGKILL that no Stop sent is read back as Failed, 137.
C6_Witness ==
  /\ lastOp.op = "GetJobStatus"
  /\ lastOp.status = "Failed"
  /\ lastOp.exitCode = 128 + SIGKILL
  /\ ~stopped[lastOp.id]
  /\ waitErr[lastOp.id] = Disp("signal", SIGKILL)

\* C7: Stop on a job that is not Running returns NotRunning, writes no
\* cgroup.kill, sends no signal, and leaves status, exit code and child alone.
C7_StopNotRunning ==
  [][\A j \in JobIds :
       (lastOp'.op = "Stop" /\ lastOp'.id = j /\ status[j] # "Running")
         => /\ lastOp'.code = "NotRunning"
            /\ ~lastOp'.cgKill
            /\ ~lastOp'.pgKill
            /\ status'[j] = status[j]
            /\ exitCode'[j] = exitCode[j]
            /\ child'[j] = child[j]]_vars

\* A second Stop after a successful one, and a Stop before Start, were refused.
C7_Witness ==
  /\ lastOp.op = "Stop"
  /\ lastOp.code = "NotRunning"
  /\ stopped[lastOp.id]
  /\ \E j \in held : status[j] = "Submitted"

\* C8: Start on a job that is not Submitted returns an error, spawns nothing,
\* cleans up no cgroup, and leaves status, exit code and process handle alone.
C8_StartNotSubmitted ==
  [][\A j \in JobIds :
       (lastOp'.op = "Start" /\ lastOp'.id = j /\ status[j] # "Submitted")
         => /\ lastOp'.code # NULL
            /\ status'[j] = status[j]
            /\ exitCode'[j] = exitCode[j]
            /\ cmd'[j] = cmd[j]
            /\ child'[j] = child[j]
            /\ cgroup'[j] = cgroup[j]
            /\ cleanups'[j] = cleanups[j]]_vars

\* A second Start on a Running job was refused.
C8_Witness ==
  /\ lastOp.op = "Start"
  /\ lastOp.code = "AlreadyStarted"
  /\ status[lastOp.id] = "Running"
  /\ child[lastOp.id] = Alive

\* C9: when the waiter commits on a job that is still Running: exit 0 gives
\* (Success, 0), exit N # 0 gives (Failed, N), signal S gives (Failed, 128+S).
C9_WaiterOutcome ==
  [][\A j \in JobIds :
       (waiter[j] = "reaped" /\ waiter'[j] = "done" /\ status[j] = "Running")
         => /\ waitErr[j].kind = "nil"
                 => (status'[j] = "Success" /\ exitCode'[j] = 0)
            /\ waitErr[j].kind = "exit"
                 => (status'[j] = "Failed" /\ exitCode'[j] = waitErr[j].val)
            /\ waitErr[j].kind = "signal"
                 => (status'[j] = "Failed" /\ exitCode'[j] = 128 + waitErr[j].val)]_vars

\* The waiter has published a signaled death, a non-zero exit and a success.
C9_Witness ==
  /\ \E j \in JobIds :
       /\ waiter[j] = "done" /\ ~stopped[j]
       /\ waitErr[j].kind = "signal" /\ status[j] = "Failed"
  /\ \E j \in JobIds :
       /\ waiter[j] = "done" /\ ~stopped[j]
       /\ waitErr[j].kind \in {"exit", "nil"}

\* C10: GetJobStatus answers NotFound exactly when no StartJob has returned
\* the id or the caller is neither an admin nor the recorded owner; otherwise
\* it answers with the job's current status and exit code.
C10_NotFoundIff ==
  lastOp.op = "GetJobStatus" =>
    LET id == lastOp.id
        who == lastOp.who
        mayRead == \/ who.role = "admin"
                   \/ id \in DOMAIN owners /\ owners[id].username = who.username
    IN /\ lastOp.code = "NotFound" <=> (id \notin returned \/ ~mayRead)
       /\ lastOp.code # "NotFound"
            => /\ lastOp.code = NULL
               /\ lastOp.status = status[id]
               /\ lastOp.exitCode = exitCode[id]

\* A client was refused the status of another user's job, which exists.
C10_Witness ==
  /\ lastOp.op = "GetJobStatus"
  /\ lastOp.code = "NotFound"
  /\ lastOp.id \in returned
  /\ lastOp.who.role = "client"

\* C18: a Write on a closed bus returns ErrClosed with 0 bytes and leaves the
\* buffer as it was; a Write on an open bus appends exactly its input and
\* returns the input's length.
C18_WriteAfterClose ==
  [][busOp'.op = "Write" =>
       IF closed
         THEN /\ writeRes' = <<0, "ErrClosed">>
              /\ buf' = buf
              /\ written' = written
         ELSE LET p == SubSeq(written', Len(written) + 1, Len(written')) IN
              /\ written' = written \o p
              /\ buf' = buf \o p
              /\ writeRes' = <<Len(p), NULL>>]_vars

\* A Write was refused on a closed bus that holds bytes and had room for more.
C18_Witness ==
  /\ busOp.op = "Write"
  /\ writeRes = <<0, "ErrClosed">>
  /\ closed
  /\ Len(buf) \in 1..(MaxBuf - 1)

\* C19: a Close of a bus that is already closed leaves the buffer, the closed
\* flag and every subscriber's offset and results as they were; and on a bus
\* closed any number of times a subscriber that got EOF has read the whole
\* buffer.
C19_CloseIdempotent ==
  [][/\ (busOp'.op = "Close" /\ closed)
          => /\ closed' = closed
             /\ buf' = buf
             /\ offset' = offset
             /\ done' = done
             /\ readRes' = readRes
             /\ got' = got
      /\ \A s \in SubIds :
           readRes'[s][2] = "EOF" => (closed' /\ got'[s] = buf')]_vars

\* The bus was closed again after a subscriber had read a full buffer to EOF.
C19_Witness ==
  /\ busOp.op = "Close"
  /\ closed
  /\ \E s \in SubIds :
       readRes[s][2] = "EOF" /\ got[s] = buf /\ Len(buf) = MaxBuf

\* C20: a Close of subscriber s changes neither the buffer nor the closed flag
\* nor any other subscriber's offset, cancellation or read results; and a Close
\* of a subscriber already closed changes nothing at all.
C20_SubCloseFrame ==
  [][\A s \in SubIds :
       /\ (busOp'.op \in {"SubClose", "SubCloseAgain"} /\ busOp'.s = s)
            => /\ buf' = buf
               /\ closed' = closed
               /\ written' = written
               /\ \A t \in SubIds \ {s} :
                    /\ offset'[t] = offset[t]
                    /\ done'[t] = done[t]
                    /\ closeOnce'[t] = closeOnce[t]
                    /\ readRes'[t] = readRes[t]
                    /\ got'[t] = got[t]
       /\ (busOp'.op = "SubCloseAgain" /\ busOp'.s = s)
            => /\ closeOnce[s] = "closed"
               /\ UNCHANGED <<buf, closed, subPc, offset, done, closeOnce,
                              dstLen, readRes, written, got, writeRes>>]_vars

\* A subscriber was closed a second time while the other one stays parked in a
\* Read with nothing left to read on an open bus.
C20_Witness ==
  /\ busOp.op = "SubCloseAgain"
  /\ ~closed
  /\ Len(buf) > 0
  /\ \E t \in SubIds \ {busOp.s} :
       subPc[t] = "waiting" /\ offset[t] = Len(buf) /\ ~done[t]

\* C11: a GetJobStatus, StopJob or StreamOutput call by a caller who is not an
\* admin gets one and the same response, NotFound with nothing else in it,
\* whether the id is of no job or of a job owned by someone else; and the call
\* changes no job's status, exit code or process, no cgroup, no registry entry
\* and nothing of the output bus (no subscriber is created).
C11_NonOwnerSeesNotFound ==
  [][LET r == lastOp' IN
     (/\ r.op \in {"GetJobStatus", "StopJob", "StreamOutput"}
      /\ r.who.role # "admin"
      /\ (r.id \in DOMAIN owners => owners[r.id].username # r.who.username))
       => /\ r = Op(r.op, r.id, r.who, "NotFound", NULL, NoExit, FALSE, FALSE)
          /\ UNCHANGED <<busVars, nextId, status, exitCode, cmd, cgroup, cleanups,
                         noCleanup, child, waiter, waitErr, jobs, owners, held,
                         stopped, returned>>]_vars

\* A client was refused the stream of a running job of another user while that
\* job's bus has a subscriber.
C11_Witness ==
  /\ lastOp.op = "StreamOutput"
  /\ lastOp.code = "NotFound"
  /\ lastOp.who.role = "client"
  /\ lastOp.id = BusJob
  /\ lastOp.id \in jobs
  /\ status[lastOp.id] = "Running"
  /\ \E s \in SubIds : subPc[s] # "none"

\* C12: for an id that was never inserted, the owner lookup fails with
\* NotFound, and a GetJobStatus, StopJob or StreamOutput call by anyone (admins
\* reach the registry's own lookup) returns NotFound and changes nothing: no
\* registry entry, no job state, and no subscriber or byte on the bus.
C12_UnknownIdNotFound ==
  [][LET r == lastOp' IN
     /\ \A id \in JobIds \ jobs :
          GetJobOwner(id) = [owner |-> NoIdentity, err |-> "NotFound"]
     /\ (r.op \in {"GetJobStatus", "StopJob", "StreamOutput"} /\ r.id \notin jobs)
          => /\ r = Op(r.op, r.id, r.who, "NotFound", NULL, NoExit, FALSE, FALSE)
             /\ UNCHANGED <<busVars, nextId, status, exitCode, cmd, cgroup, cleanups,
                            noCleanup, child, waiter, waitErr, jobs, owners, held,
                            stopped, returned>>]_vars

\* An admin asked for the stream of an id that a failed start had generated,
\* while another job is registered.
C12_Witness ==
  /\ lastOp.op = "StreamOutput"
  /\ lastOp.code = "NotFound"
  /\ lastOp.who.role = "admin"
  /\ lastOp.id \notin jobs
  /\ lastOp.id < nextId
  /\ jobs # {}

\* C13: the registry holds a job exactly when it holds its owner; an entry is
\* never removed and its owner and job (its process handle) never replaced; a
\* new entry always gets an id that was never generated before; and a
\* status, stop or stream call on a registered id by an admin or the owner is
\* never answered NotFound.
C13_RegistryPermanent ==
  [][/\ jobs' = DOMAIN owners'
     /\ jobs \subseteq jobs'
     /\ \A id \in jobs :
          /\ owners'[id] = owners[id]
          /\ cmd[id] /\ cmd'[id]
          /\ status'[id] \in {"Running"} \cup Terminal
     /\ \A id \in jobs' \ jobs :
          /\ id = nextId
          /\ nextId' = id + 1
          /\ \A k \in jobs : k < id
     /\ LET r == lastOp' IN
        (/\ r.op \in {"GetJobStatus", "StopJob", "StreamOutput"}
         /\ r.id \in jobs
         /\ (r.who.role = "admin" \/ r.who.username = owners[r.id].username))
          => /\ r.code # "NotFound"
             /\ r.op = "GetJobStatus" => r.status = status[r.id]]_vars

\* Two jobs of different owners are registered, the first one has finished,
\* and its owner has just read its status.
C13_Witness ==
  /\ jobs = JobIds
  /\ owners[1] # owners[2]
  /\ waiter[1] = "done"
  /\ lastOp.op = "GetJobStatus"
  /\ lastOp.id = 1
  /\ lastOp.who = owners[1]
  /\ lastOp.code = NULL

\* C14: when Worker.StartJob fails (CreateCgroup, NewJob on the job type, or
\* the spawn after its fallback attempt) it returns an error and no id, the
\* registry is as before and has no entry for the generated id, no waiter is
\* launched and no child exists, the job if one was constructed is still
\* Submitted, and the cgroup if one was created has been cleaned up once and
\* is removed.
C14_StartFailureReleases ==
  [][LET r == lastOp'
         j == nextId
     IN (r.op = "StartJob" /\ r.code \notin {NULL, "InvalidArgument"})
          => /\ nextId' = j + 1
             /\ r.id = 0
             /\ jobs' = jobs /\ owners' = owners /\ returned' = returned
             /\ j \notin jobs' /\ j \notin DOMAIN owners'
             /\ waiter'[j] = "none"
             /\ cmd'[j] = FALSE /\ child'[j] = NoChild
             /\ status'[j] \in {NULL, "Submitted"}
             /\ r.code = "StartFailed" => status'[j] = "Submitted"
             /\ IF r.code = "CreateCgroupFailed"
                  THEN cgroup'[j] = "nil" /\ cleanups'[j] = 0
                  ELSE cgroup'[j] = "removed" /\ cleanups'[j] = 1]_vars

\* A start failed at the spawn while an earlier job is registered: the job is
\* Submitted and its cgroup is gone.
C14_Witness ==
  /\ lastOp.op = "StartJob"
  /\ lastOp.code = "StartFailed"
  /\ nextId - 1 \in JobIds \ jobs
  /\ status[nextId - 1] = "Submitted"
  /\ cgroup[nextId - 1] = "removed"
  /\ jobs # {}

\* C15: StartJob with an empty command returns InvalidArgument and no id, and
\* changes nothing: no id is generated, no cgroup created, no job constructed,
\* no process spawned, no registry entry added.
C15_EmptyCommandRejected ==
  [][LET r == lastOp' IN
     (r.op = "StartJob" /\ r.command = "")
       => /\ r.code = "InvalidArgument"
          /\ r.id = 0
          /\ UNCHANGED <<busVars, nextId, status, exitCode, cmd, cgroup, cleanups,
                         noCleanup, child, waiter, waitErr, jobs, owners, held,
                         stopped, returned>>]_vars

\* An empty command was refused after one job had been started.
C15_Witness ==
  /\ lastOp.op = "StartJob"
  /\ lastOp.command = ""
  /\ lastOp.code = "InvalidArgument"
  /\ jobs = {1}
  /\ nextId = 2

C17_CgroupRemovedAfterWait ==
  \A j \in JobIds :
    (waiter[j] = "done" /\ cgroup[j] # "nil" /\ ~noCleanup) => cgroup[j] = "removed"

\* C21: a subscriber parked in Read with nothing unread on an open bus, whose
\* cancellation has fired (close(s.done) has run, at whatever point of the
\* reader's check-then-wait), returns ErrClosedPipe (Cancelled) unless a Write
\* or a bus Close gives it something else to return: no call by anyone else
\* is needed to wake it.
C21_CancelWakesReader ==
  \A s \in SubIds :
    (subPc[s] = "waiting" /\ done[s] /\ ~closed /\ offset[s] = Len(buf))
      ~> \/ subPc[s] = "idle" /\ readRes[s] = <<0, "ErrClosedPipe">>
         \/ closed
         \/ offset[s] < Len(buf)

\* A read parked on an empty open bus has just been woken by the Broadcast of
\* its own subscriber's Close, with no Write and no bus Close before it.
C21_Witness ==
  \E s \in SubIds :
    /\ busOp = BusOp("SubClose", s)
    /\ subPc[s] = "woken"
    /\ done[s]
    /\ closeOnce[s] = "closed"
    /\ ~closed
    /\ written = <<>>

C30_StopKillPaths ==
  [][\A j \in JobIds :
       (lastOp'.op = "Stop" /\ lastOp'.id = j /\ status[j] = "Running")
         => /\ lastOp'.cgKill <=> cgroup[j] # "nil"
            /\ lastOp'.pgKill <=> (cgroup[j] = "nil" \/ lastOp'.cgFailed)
            /\ (lastOp'.cgKill /\ ~lastOp'.cgFailed) => ~lastOp'.pgKill]_vars

\* A Stop killed a Running job through its cgroup alone.
C30_Witness ==
  /\ lastOp.op = "Stop"
  /\ lastOp.code = NULL
  /\ lastOp.cgKill
  /\ ~lastOp.cgFailed
  /\ ~lastOp.pgKill
  /\ status[lastOp.id] = "Killed"

\* C29: when Stop and the waiter both reach a Running job, the first to take
\* the job mutex decides the status: after a Stop that committed, the waiter
\* leaves Killed; after the waiter committed, Stop returns NotRunning and the
\* status stays the Success or Failed the waiter set.
C29_StopWaiterRace ==
  [][\A j \in JobIds :
       /\ (waiter[j] = "reaped" /\ waiter'[j] = "done" /\ stopped[j])
            => (status[j] = "Killed" /\ status'[j] = "Killed")
       /\ (lastOp'.op = "Stop" /\ lastOp'.id = j /\ waiter[j] = "done" /\ ~stopped[j])
            => /\ lastOp'.code = "NotRunning"
               /\ status[j] \in {"Success", "Failed"}
               /\ status'[j] = status[j]]_vars

\* Both orders have happened: a waiter has committed after a Stop on a child
\* that exited with 0, and a Stop has been refused after a waiter's Success.
C29_Witness ==
  /\ \E j \in JobIds :
       /\ stopped[j] /\ waiter[j] = "done"
       /\ waitErr[j].kind = "nil" /\ status[j] = "Killed"
  /\ \E j \in JobIds :
       /\ ~stopped[j] /\ waiter[j] = "done" /\ status[j] = "Success"
       /\ lastOp.op = "Stop" /\ lastOp.id = j /\ lastOp.code = "NotRunning"

\* C28: a StopJob that writes the job's cgroup.kill has sent SIGTERM to the
\* job first (and waited for the grace period).
C28_SigtermBeforeCgroupKill ==
  (lastOp.op = "StopJob" /\ lastOp.cgKill)
    => (Len(StopSends(lastOp)) > 1 /\ StopSends(lastOp)[1] = "SIGTERM")

\* C27: once the supervisor has exited with a job Running whose child was
\* started in a new PID namespace, eventually neither the child nor any
\* process it forked is alive.
C27_NoOrphansInPidNamespace ==
  \A j \in JobIds :
    (supervisor = "exited" /\ status[j] = "Running" /\ attr[j].newpid)
      ~> (child[j] # Alive /\ ~desc[j])

\* The supervisor has exited while the child of a Running job, started in a
\* new PID namespace, and a process it forked are both alive.
C27_Witness ==
  \E j \in JobIds :
    /\ supervisor = "exited"
    /\ status[j] = "Running"
    /\ attr[j].newpid
    /\ child[j] = Alive
    /\ desc[j]

\* C25: a StreamOutput handler sends the bus's bytes from offset 0 in order;
\* it returns nil only after the last byte of a closed bus, Canceled only
\* after its context was cancelled, and its subscriber's Close has completed
\* whenever it has returned; once the bus is closed or the context cancelled
\* it does return.
C25_StreamDeliversAndTerminates ==
  /\ [](\A s \in SubIds :
          /\ IsPrefix(sent[s], written)
          /\ rpc[s] = "returned"
               => /\ closeOnce[s] = "closed"
                  /\ rpcCode[s] = NULL => (closed /\ sent[s] = written)
                  /\ rpcCode[s] # NULL => ctx[s] = "cancelled")
  /\ \A s \in SubIds :
       (rpc[s] \in {"open", "reading", "closing"} /\ (closed \/ ctx[s] = "cancelled"))
         ~> (rpc[s] = "returned")

\* One handler has returned nil after sending every byte of a full bus, another
\* has returned Canceled after sending a part of them.
C25_Witness ==
  \E s, t \in SubIds :
    /\ rpc[s] = "returned" /\ rpcCode[s] = NULL
    /\ Len(sent[s]) = MaxBuf
    /\ rpc[t] = "returned" /\ rpcCode[t] = "Canceled"
    /\ Len(sent[t]) = 1

\* C23: once Worker.Shutdown has returned, Stop has been called on every job
\* that was registered when it ran and the Output Bus of each is closed; no
\* subscriber of such a bus is parked in Read, and every Read on it returns at
\* once with unread bytes or EOF, whether or not the child has exited; a
\* handler that returns nil has sent every byte written.
C23_ShutdownUnblocksStreams ==
  /\ [](shutdown.pc = "done"
          => /\ shutdown.seen \subseteq shutdown.stopReq
             /\ BusJob \in shutdown.seen
                  => /\ closed
                     /\ \A s \in SubIds :
                          /\ subPc[s] # "waiting"
                          /\ (rpc[s] = "returned" /\ rpcCode[s] = NULL)
                               => sent[s] = written)
  /\ [][\A s \in SubIds :
          (/\ shutdown.pc = "done"
           /\ BusJob \in shutdown.seen
           /\ busOp' = BusOp("Read", s)
           /\ subPc[s] \in {"idle", "woken"})
            => /\ subPc'[s] = "idle"
               /\ \/ readRes'[s] = <<0, "EOF">>
                  \/ readRes'[s][1] > 0 /\ readRes'[s][2] = NULL]_vars

\* Shutdown has returned after visiting two jobs; the child of the bus's job
\* is still alive (its kill failed), and a handler has sent every byte written
\* and returned nil.
C23_Witness ==
  /\ shutdown.pc = "done"
  /\ shutdown.seen = JobIds
  /\ child[BusJob] = Alive
  /\ written # <<>>
  /\ \E s \in SubIds :
       rpc[s] = "returned" /\ rpcCode[s] = NULL /\ sent[s] = written

\* C24: no StartJob is admitted once Worker.Shutdown has been called.
C24_NoStartAfterShutdown ==
  lastOp.op = "StartJob" => shutdown.pc = "idle"

\* C26: Shutdown's Stop and Close on a job run without the registry lock
\* (w.mu) held by the goroutine that calls them.
C26_JobOpsOutsideRegistryLock ==
  lastOp.op \in {"ShutdownStop", "ShutdownClose"} => RegistryFree

\* C31: a Stop on a Running job returns nil and leaves (Killed, 137) when the
\* kill path it used succeeded (cgroup.kill was written, or the process-group
\* signal was delivered) or the signal returned ESRCH; it returns an error,
\* leaving the job Running with no exit code, exactly when the process-group
\* signal was attempted and failed with an errno other than ESRCH.
C31_StopResult ==
  (lastOp.op = "Stop" /\ lastOp.code # "NotRunning") =>
    LET pathOk == \/ lastOp.cgKill /\ ~lastOp.cgFailed
                  \/ lastOp.pgKill /\ lastOp.sig \in {"ok", "ESRCH"}
        sigFailed == lastOp.pgKill /\ lastOp.sig \notin {"ok", "ESRCH"}
    IN /\ pathOk => /\ lastOp.code = NULL
                    /\ status[lastOp.id] = "Killed"
                    /\ exitCode[lastOp.id] = 137
       /\ lastOp.code # NULL <=> sigFailed
       /\ lastOp.code # NULL => /\ status[lastOp.id] = "Running"
                                /\ exitCode[lastOp.id] = NoExit

\* A Stop whose cgroup.kill write failed and whose signal found no process
\* group (the waiter had reaped the child) has returned nil.
C31_Witness ==
  /\ lastOp.op = "Stop"
  /\ lastOp.cgFailed
  /\ lastOp.pgKill
  /\ lastOp.sig = "ESRCH"
  /\ lastOp.code = NULL
  /\ status[lastOp.id] = "Killed"
  /\ waiter[lastOp.id] = "reaped"

\* C32: a Start that passed the Submitted check calls cmd.Start once or twice:
\* first with the PID namespace flags, and a second time, without them, only
\* if the first call failed. The job is Running with its process handle set
\* if and only if one of the calls succeeded; otherwise it is still Submitted,
\* has no process handle and its cgroup (if it has one) has been cleaned up.
C32_StartSpawns ==
  (lastOp.op = "Start" /\ lastOp.code # "AlreadyStarted") =>
    LET t == lastOp.spawns
        j == lastOp.id
        spawned == \E i \in 1..Len(t) : t[i].ok
    IN /\ Len(t) \in 1..2
       /\ t[1].usePIDNS
       /\ Len(t) = 2 => (~t[1].ok /\ ~t[2].usePIDNS)
       /\ (status[j] = "Running" /\ cmd[j]) <=> spawned
       /\ lastOp.code = NULL <=> spawned
       /\ ~spawned => /\ status[j] = "Submitted"
                      /\ ~cmd[j]
                      /\ cgroup[j] \in {"nil", "removed"}
                      /\ cgroup[j] # "nil" => cleanups[j] > 0

\* A Start whose first spawn failed and whose second, without the namespace
\* flags, succeeded: the job runs outside a PID namespace.
C32_Witness ==
  /\ lastOp.op = "Start"
  /\ Len(lastOp.spawns) = 2
  /\ ~lastOp.spawns[1].ok
  /\ lastOp.spawns[2].ok
  /\ status[lastOp.id] = "Running"
  /\ cmd[lastOp.id]
  /\ ~attr[lastOp.id].newpid

\* C33: a Read of subscriber s with a destination of length n, entered or
\* resumed with the bus as it is: if unread bytes exist it returns the first
\* min(n, unread) of them and advances the offset by that count, whether or
\* not the bus is closed or the subscriber cancelled; it returns EOF exactly
\* when nothing is unread and the bus is closed; it returns ErrClosedPipe
\* exactly when nothing is unread, the bus is open and the subscriber is
\* cancelled; otherwise it blocks, returning nothing and moving nothing.
C33_ReadCases ==
  [][\A s \in SubIds, n \in 1..MaxDst :
       (/\ busOp' = BusOp("Read", s)
        /\ Read(s, n) \/ (ReadResume(s) /\ dstLen[s] = n)) =>
         LET unread == Len(buf) - offset[s]
             k == Min(n, unread)
             ret == subPc'[s] = "idle"
         IN /\ unread > 0 =>
                 /\ ret
                 /\ readRes'[s] = <<k, NULL>>
                 /\ offset'[s] = offset[s] + k
                 /\ got'[s] = got[s] \o SubSeq(buf, offset[s] + 1, offset[s] + k)
            /\ (ret /\ readRes'[s] = <<0, "EOF">>) <=> (unread = 0 /\ closed)
            /\ (ret /\ readRes'[s] = <<0, "ErrClosedPipe">>)
                 <=> (unread = 0 /\ ~closed /\ done[s])
            /\ (unread = 0 /\ ~closed /\ ~done[s]) =>
                 /\ subPc'[s] = "waiting"
                 /\ UNCHANGED <<offset, got, readRes>>]_vars

\* A Read on a closed bus by a cancelled subscriber has returned unread bytes,
\* fewer than were unread.
C33_Witness ==
  \E s \in SubIds :
    /\ busOp = BusOp("Read", s)
    /\ subPc[s] = "idle"
    /\ closed
    /\ done[s]
    /\ readRes[s][2] = NULL
    /\ readRes[s][1] > 0
    /\ offset[s] < Len(buf)

\* C34: a CreateCgroup whose write of cpu.max or of memory.max, or whose open
\* of the directory, failed returns an error and no Cgroup, and the job
\* directory it made is removed; one in which nothing failed but determining
\* or writing io.max returns a Cgroup with its directory handle open.
C34_CreateFailures ==
  lastOp.op = "CreateCgroup" =>
    LET j == lastOp.id
        f == lastOp.failed
    IN /\ f \cap {"cpu.max", "memory.max", "open"} # {} =>
            /\ lastOp.code # NULL
            /\ j \notin held
            /\ cgroup[j] = "removed"
       /\ (f # {} /\ f \subseteq {"rootIOMax", "io.max"}) =>
            /\ lastOp.code = NULL
            /\ j \in held
            /\ cgroup[j] = "open"

\* A CreateCgroup that could not write io.max has returned a Cgroup.
C34_Witness ==
  /\ lastOp.op = "CreateCgroup"
  /\ lastOp.failed = {"io.max"}
  /\ lastOp.code = NULL
  /\ lastOp.id \in held
  /\ cgroup[lastOp.id] = "open"

\* C35: no set of goroutines is ever such that each of them waits for the
\* registry lock, a job mutex or a bus mutex that another goroutine of the set
\* would have to release: under every interleaving of StartJob, GetJobStatus,
\* StopJob, StreamOutput reads, output writes, the waiter and Shutdown.
C35_NoLockDeadlock ==
  \A D \in SUBSET LockThreads : ~Deadlocked(D)

\* Shutdown holds the registry lock and waits for the mutex of a job, which
\* the waiter holds while it waits for the bus mutex, which the StreamOutput
\* handler holds inside Read; a GetJobStatus waits for the registry lock.
C35_Witness ==
  \E j \in JobIds :
    /\ mutex.w.writer = "shutdown"
    /\ WaitsFor("shutdown") = {"waiter"}
    /\ mutex.m[LMu(j)] = "waiter"
    /\ WaitsFor("waiter") = {"stream"}
    /\ mutex.m[BMu(j)] = "stream"
    /\ thread["stream"].op = "StreamOutput"
    /\ thread["rpc"].op = "GetJobStatus"
    /\ WaitsFor("rpc") = {"shutdown"}

C37_RegisteredJobsStarted ==
  \A j \in JobIds :
    /\ j \in jobs => /\ status[j] \in {"Running", "Success", "Failed", "Killed"}
                     /\ cmd[j]
    /\ waiter[j] # "none" => j \in jobs

\* A StartJob whose spawn failed has returned: its job is Submitted and is
\* not in the registry, which holds a job started earlier.
C37_Witness ==
  /\ lastOp.op = "StartJob"
  /\ lastOp.code = "StartFailed"
  /\ jobs # {}
  /\ \E j \in JobIds : status[j] = "Submitted" /\ ~cmd[j] /\ j \notin jobs

\* C38: in every state of an Output Bus each subscriber's offset lies between
\* 0 and the length of the buffer; and in every step no offset decreases, the
\* buffer before the step is a prefix of the buffer after it, and a closed
\* bus stays closed.
C38_BusMonotone ==
  [][/\ \A s \in SubIds :
          /\ 0 <= offset[s] /\ offset[s] <= Len(buf)
          /\ 0 <= offset'[s] /\ offset'[s] <= Len(buf')
          /\ offset[s] <= offset'[s]
     /\ IsPrefix(buf, buf')
     /\ closed => closed']_vars

\* A subscriber has read everything written so far, one has read nothing, and
\* a Write on the closed bus has just been refused.
C38_Witness ==
  /\ busOp = BusOp("Write", 0)
  /\ writeRes = <<0, "ErrClosed">>
  /\ closed
  /\ Len(buf) = MaxBuf
  /\ \E s, t \in SubIds :
       /\ subPc[s] # "none" /\ offset[s] = Len(buf)
       /\ subPc[t] # "none" /\ offset[t] = 0

\* C39: under fair scheduling, a job that StartJob returned and whose child
\* has terminated (on its own or killed by a Stop) eventually has a terminal
\* status; its Output Bus is eventually closed; and every StreamOutput handler
\* on that bus, reading on, eventually gets EOF from Read.
C39_JobEventuallyDone ==
  LET Ended(j) == Dead(child[j]) \/ child[j] = Reaped IN
  /\ \A j \in JobIds :
       (j \in returned /\ Ended(j)) ~> (status[j] \in Terminal)
  /\ (BusJob \in returned /\ Ended(BusJob)) ~> closed
  /\ \A s \in SubIds :
       (rpc[s] # "none" /\ Ended(BusJob)) ~> (readRes[s] = <<0, "EOF">>)

\* The job was stopped, its waiter has committed Killed and closed the bus,
\* and two handlers have read every byte written and then EOF.
C39_Witness ==
  /\ stopped[BusJob]
  /\ status[BusJob] = "Killed"
  /\ waiter[BusJob] = "done"
  /\ closed
  /\ written # <<>>
  /\ \A s \in SubIds : readRes[s] = <<0, "EOF">> /\ sent[s] = written

====
